---- MODULE Spec2Model ----
(***************************************************************************)
(* Model of the decaf HTTP server: the Child worker's accept/request loop  *)
(* (modules/http/lib/Child.js), the Response writer                        *)
(* (modules/http/lib/Response.js) and the part of the Request parser the   *)
(* worker loop depends on.                                                 *)
(*                                                                         *)
(* One worker thread is followed through its two nested loops.  The        *)
(* handler fn is user code: it is modelled as an arbitrary sequence of     *)
(* Response operations (one action each) ended by a return, a throw,       *)
(* stop() or redirect().  The bytes written to the OutputStream for the    *)
(* current response are kept, record by record, in res.wire.  flush() is   *)
(* not modelled: the OutputStream is an external byte sink.                *)
(***************************************************************************)
EXTENDS Integers, Sequences, FiniteSets, TLC

VARIABLES
    pc,         \* position of the Child thread: "accept", "loop", "handler",
                \* "connect", "run", "onclose", "exited"
    sock,       \* the accepted socket and its streams: "none", "open", "destroyed", "abandoned"
    keepAlive,  \* Child's keepAlive (Child.js:80)
    hKeepAlive, \* handleRequest's local keepAlive (Child.js:134)
    served,     \* number of requests parsed on the current connection
    req,        \* the Request being handled
    res,        \* the Response being built
    nops,       \* Response operations the running handler has performed on res
    fin,        \* how the latest request on this connection finished; forgotten
                \* when the handler of the next request first acts on its Response
    lastOp,     \* the last Response operation the running handler performed,
                \* with its arguments
    notes,      \* the notifications fired for the latest request parsed
    parsed,     \* what new Request(is) did for the latest request; forgotten
                \* when the handler acts
    workers,    \* the Child threads that run a WebSocket each, one record each
    webSockets, \* the registry of WebSocket.js (WebSocket.js:36): the set of
                \* its entries, each the uuid and the request uri of a WebSocket
    bc,         \* the thread started by the latest broadcast()
    pool,       \* the Threads started for Child, in the order of their start:
                \* position ("new", "accept", "serving", "exiting", "dead")
                \* and the events the thread has a listener for
    threads,    \* the keys of the table `threads` of Thread.js (Thread.js:6)
    echo,       \* a payload framed by rawSendMessage and what getMessage made
                \* of the frame
    wsIn,       \* the bytes the client of a WebSocket has sent and getMessage
                \* has not read
    ended,      \* the client of that WebSocket has closed its end
    frames,     \* the frames the client of that WebSocket has sent, as it built
                \* them
    nread,      \* the number of those frames getMessage has read bytes of
    wsOut,      \* the bytes getMessage has written to the client of that WebSocket
    loop,       \* position of run(): "run", "onclose", "closed"
    log,        \* the calls of onmessage and onclose and the 'message' and
                \* 'close' events fired for that WebSocket, in order
    form,       \* a form posted and what Request decoded it to
    hdr,        \* a request sent and how far Request read it
    monitor,    \* the thread inside a function synchronized on each WebSocket
    senders,    \* the threads that call send() or pong(), one record each
    out         \* the bytes written to the client of each WebSocket

\* the worker followed through HTTP requests
httpVars == <<pc, sock, keepAlive, hKeepAlive, served, req, res, nops, fin, lastOp,
              notes, parsed>>

\* the workers followed through WebSocket upgrades
wsVars == <<workers, webSockets, bc>>

\* the pool of worker threads
poolVars == <<pool, threads>>

\* the frame codec and the message loop of one WebSocket, and the form
\* decoder of Request
codecVars == <<echo, wsIn, ended, frames, nread, wsOut, loop, log, form, hdr>>

\* the threads that write frames to the WebSockets
syncVars == <<monitor, senders, out>>

vars == <<httpVars, wsVars, poolVars, codecVars, syncVars>>

----------------------------------------------------------------------------
(* Bounds *)

MaxReqs == 2    \* requests the client sends on one connection
MaxOps == 2     \* Response operations a handler performs for one request
numChildren == 3    \* worker threads listen() starts
MaxExits == 2       \* worker functions that exit in one run
MaxText == 4        \* characters of the short text payloads framed
MaxFrames == 3      \* frames the client of a WebSocket sends
MaxHeaders == 66    \* header lines of a request
MaxPairs == 2       \* fields of a form posted
MaxCalls == 2       \* calls of send(), ping() and pong() one thread makes

----------------------------------------------------------------------------
(* Inputs *)

\* raw values of the request's Connection header ("" is an absent header)
ConnectionValues == {"", "close", "keep-alive", "Keep-Alive", "upgrade"}

\* raw values of the request's Upgrade header ("" is an absent header)
UpgradeValues == {"", "h2c"}

\* values the handler returns
ReturnValues == {"undefined", "false", "0"}

\* values other than RES.STOP that the handler may throw: an Error, a Java
\* exception (it has dumpText), the signal of Thread.exit(), and null
Thrown == {"Error", "JavaException", "THREAD.EXIT", "null"}

\* String.prototype.toLowerCase on the header values used
toLowerCase(s) ==
    CASE s = "Keep-Alive" -> "keep-alive"
      [] s = "Upgrade" -> "upgrade"
      [] s = "Close" -> "close"
      [] s = "WebSocket" -> "websocket"
      [] OTHER -> s

\* values of the Upgrade header of an upgrade request ("": no header)
WsUpgradeValues == UpgradeValues \cup {"websocket", "WebSocket"}

\* paths registered with server.webSocket(path, onConnect) (Server.js:95-98)
Routes == {"chat"}

\* the request uris of upgraded connections
Uris == {"/chat", "/chat/x"}

\* parts = request.uri.split('/'), part = parts[0] || parts[1]
\* (Child.js:149-150)
Part(uri) ==
    CASE uri = "/chat" -> "chat"
      [] uri = "/chat/x" -> "chat"
      [] uri = "/none" -> "none"
      [] OTHER -> ""

\* handleRequest building a WebSocket whatever the path of the request
Upgrades_AnyRoute(u, uri) ==
    CASE u = "" -> "Error"
      [] u # "" /\ toLowerCase(u) # "websocket" -> "false"
      [] OTHER -> "WebSocket"

\* whether handleRequest builds a WebSocket for an upgrade request
\* (Child.js:146-151); without an Upgrade header toLowerCase is called on
\* undefined
Upgrades(u, uri) ==
    CASE u = "" -> "Error"
      [] u # "" /\ toLowerCase(u) # "websocket" -> "false"
      [] OTHER -> IF Part(uri) \in Routes THEN "WebSocket" ELSE "false"

\* values the connect callback, onclose or a 'close' listener may throw
WsThrown == {"Error", "RES.STOP", "THREAD.EXIT"}

----------------------------------------------------------------------------
(* Maps (JavaScript objects used as hashes) *)

EmptyMap == [k \in {} |-> ""]

Put(h, k, v) == [x \in (DOMAIN h) \cup {k} |-> IF x = k THEN v ELSE h[x]]

\* decaf.extend(dst, src)
extend(dst, src) == [x \in (DOMAIN dst) \cup (DOMAIN src) |->
                        IF x \in DOMAIN src THEN src[x] ELSE dst[x]]

Has(h, k) == k \in DOMAIN h

----------------------------------------------------------------------------
(* Response (Response.js) *)

\* this.cookies = null: no cookie is queued
NoCookies == EmptyMap

\* new Response(os, req)
Response ==
    [headersSent |-> FALSE, chunked |-> FALSE, status |-> 200,
     cookies |-> NoCookies, headers |-> EmptyMap, wire |-> <<>>]

NoRes == Response

\* records written to the OutputStream
HeadRec(st, h, ck) == [t |-> "head", status |-> st, hdrs |-> h, ck |-> ck, data |-> ""]
ChunkRec(s) == [t |-> "chunk", status |-> 0, hdrs |-> EmptyMap, ck |-> NoCookies, data |-> s]
TermRec == [t |-> "term", status |-> 0, hdrs |-> EmptyMap, ck |-> NoCookies, data |-> ""]
BodyRec(s) == [t |-> "body", status |-> 0, hdrs |-> EmptyMap, ck |-> NoCookies, data |-> s]

\* sendHeaders without the headersSent test
sendHeaders_NoGuard(r) ==
    [r EXCEPT
        !.wire = Append(@, HeadRec(r.status, r.headers,
                    IF r.cookies # NoCookies /\ ~Has(r.headers, "Set-Cookie")
                    THEN r.cookies ELSE NoCookies)),
        !.headersSent = TRUE]

\* res.sendHeaders()
sendHeaders(r) ==
    IF r.headersSent THEN r
    ELSE [r EXCEPT
            !.wire = Append(@, HeadRec(r.status, r.headers,
                        IF r.cookies # NoCookies /\ ~Has(r.headers, "Set-Cookie")
                        THEN r.cookies ELSE NoCookies)),
            !.headersSent = TRUE]

\* res.setHeader(key, value)
setHeader(r, key, value) == [r EXCEPT !.headers = Put(@, key, value)]

\* res.writeHead(status, headers)
writeHead(r, st, h) == [r EXCEPT !.headers = extend(@, h), !.status = st]

\* destroy that also rewinds headersSent
destroy_ResetsHeaders(r) ==
    [r EXCEPT !.wire = IF r.chunked THEN Append(@, TermRec) ELSE @,
              !.chunked = FALSE,
              !.headersSent = FALSE]

\* res.destroy()
destroy(r) ==
    [r EXCEPT !.wire = IF r.chunked THEN Append(@, TermRec) ELSE @,
              !.chunked = FALSE]

\* the value decaf.toJavaByteArray, Date or JSON arguments take when absent
Undefined == [kind |-> "undefined", text |-> ""]
Str(s) == [kind |-> "string", text |-> s]
Obj(json) == [kind |-> "object", text |-> json]

\* responseCodeText (Response.js:21-62), for the status codes used
responseCodeText ==
    [st \in {101, 200, 303, 304, 404} |->
        CASE st = 101 -> "Switching Protocols"
          [] st = 200 -> "OK"
          [] st = 303 -> "See Other"
          [] st = 304 -> "Not Modified"
          [] st = 404 -> "Not Found"]

\* GZIP.compress(body) (GZIP.js:41-50): the gzip member holding the bytes
compress(b) == "gzip[" \o b \o "]"

\* a cookie as setCookie and unsetCookie queue it; "" is an absent field
Cookie(value, expires, path, domain) ==
    [value |-> value, expires |-> expires, path |-> path, domain |-> domain]

\* res.setCookie(key, value, expires, path, domain)
setCookie(r, key, value, expires, path, domain) ==
    [r EXCEPT !.cookies =
        Put(r.cookies, key,
            Cookie(value, expires, IF path # "" THEN path ELSE "/", domain))]

\* new Date(yesterday * 1000).toGMTString() (Response.js:167-172)
Yesterday == "yesterday"

\* res.unsetCookie(key)
unsetCookie(r, key) ==
    LET old == IF Has(r.cookies, key) THEN r.cookies[key]
               ELSE Cookie("", "", "", "")
    IN [r EXCEPT !.cookies =
            Put(r.cookies, key,
                [old EXCEPT !.path = IF @ # "" THEN @ ELSE "/",
                            !.expires = Yesterday])]

\* res.write(s)
write(r, s) ==
    LET r1 == IF ~r.headersSent
              THEN [sendHeaders(setHeader(r, "Transfer-Encoding", "Chunked"))
                        EXCEPT !.chunked = TRUE]
              ELSE r
    IN [r1 EXCEPT !.wire = Append(@, ChunkRec(s))]

\* res.end(body, gzip); body is Undefined or Str(..)
end(r, body, gzip) ==
    LET given == body.kind # "undefined" /\ body.text # ""
        bytes == IF gzip THEN compress(body.text) ELSE body.text
        h1 == IF given /\ gzip THEN Put(r.headers, "Content-Encoding", "gzip")
              ELSE r.headers
        h2 == IF given THEN Put(h1, "Content-Length", Len(bytes)) ELSE h1
        r1 == sendHeaders([r EXCEPT !.headers = h2])
    IN IF given THEN [r1 EXCEPT !.wire = Append(@, BodyRec(bytes))] ELSE r1

\* res.send(status, body); st is a number or 0 when the first argument is
\* not a number, body is Undefined, Str(..) or Obj(..)
send(r, st, body) ==
    IF st # 0 /\ body.kind = "undefined"
    THEN end(writeHead(r, st, [k \in {"Content-Type"} |-> "text/html"]),
             Str(responseCodeText[st]), FALSE)
    ELSE LET status == IF st # 0 THEN st ELSE r.status IN
         IF body.kind = "string"
         THEN end(writeHead(r, status, [k \in {"Content-Type"} |-> "text/html "]),
                  body, FALSE)
         ELSE end(writeHead(r, status, [k \in {"Content-Type"} |-> "application/json"]),
                  Str(body.text), FALSE)

\* milliseconds in a second (Response.js:288, 293, 350, 356)
MsPerSec == 1000

\* a Date header value
DateValue(fmt, ms) == [fmt |-> fmt, ms |-> ms]

\* a modifiedSince argument: absent, a date string, or a number
NoSince == [kind |-> "undefined", ms |-> 0]
SinceString(ms) == [kind |-> "string", ms |-> ms]
SinceNumber(n) == [kind |-> "number", ms |-> n]

\* Date.parse(s) of a date string standing for the instant ms
DateParse(since) == since.ms

\* res.sendBytes(bytes, mimeType, lastModified, modifiedSince)
sendBytes(r, bytes, mimeType, lastModified, modifiedSince) ==
    LET h0 == Put(r.headers, "Content-Type", mimeType)
        lm == lastModified \div MsPerSec
        h1 == IF lastModified # 0
              THEN Put(h0, "last-modified", DateValue("toString", lm * MsPerSec))
              ELSE h0
        since == (IF modifiedSince.kind = "string" THEN DateParse(modifiedSince)
                  ELSE modifiedSince.ms) \div MsPerSec
        truthy == modifiedSince.kind # "undefined" /\ modifiedSince.ms # 0
    IN IF lastModified # 0 /\ truthy /\ lm <= since
       THEN sendHeaders([r EXCEPT !.headers = h1, !.status = 304])
       ELSE LET r1 == sendHeaders([r EXCEPT
                        !.headers = Put(h1, "Content-Length", Len(bytes))])
            IN [r1 EXCEPT !.wire = Append(@, BodyRec(bytes))]

\* mimeTypes[extension] || 'text/plain'
MimeType(extension) ==
    CASE extension = "html" -> "text/html"
      [] extension = "txt" -> "text/plain"
      [] OTHER -> "text/plain"

\* the 304 test of sendFile (Response.js:291-295)
FileNotModified(modified, modifiedSince) ==
    LET since == IF modifiedSince.kind = "string"
                 THEN DateParse(modifiedSince) \div MsPerSec
                 ELSE modifiedSince.ms
    IN /\ modifiedSince.kind # "undefined"
       /\ modifiedSince.ms # 0
       /\ modified < since

\* res.sendFile(filename, modifiedSince) for an existing file; file gives
\* the extension, lastModified() in ms, and the content of the file
sendFile(r, file, modifiedSince) ==
    LET modified == file.modified \div MsPerSec
        h1 == Put(Put(r.headers, "Content-Type", MimeType(file.extension)),
                  "last-modified", DateValue("GMT", modified * MsPerSec))
    IN IF FileNotModified(modified, modifiedSince)
       THEN sendHeaders([r EXCEPT !.headers = h1, !.status = 304])
       ELSE LET r1 == sendHeaders([r EXCEPT
                        !.headers = Put(h1, "Content-Length", Len(file.content)),
                        !.status = 200])
            IN [r1 EXCEPT !.wire = Append(@, BodyRec(file.content))]

\* the Location header of res.redirect(url) (Response.js:538-548); url.abs is
\* "http://", "https://", 'https"://' or "" for a relative url
Location(url, host, port) ==
    IF url.abs # "http://" /\ url.abs # "https\"://"
    THEN "http://" \o host \o ":" \o port \o url.abs \o url.rest
    ELSE url.abs \o url.rest

\* res.redirect(url) up to the call of stop() (Response.js:534-549)
redirect(r, url, host, port) ==
    end([r EXCEPT !.status = 303,
                  !.headers = Put(@, "Location", Location(url, host, port))],
        Undefined, FALSE)

----------------------------------------------------------------------------
(* Child (Child.js) *)

NoReq == [connection |-> "", upgrade |-> "", uri |-> ""]
NoFin == [op |-> "none", ret |-> "", connection |-> "", n |-> 0]
NoOp == [op |-> "none", args |-> <<>>, before |-> 0, sent |-> FALSE]
NoParse == [threw |-> "", at |-> "", bodyRead |-> 0, contentLength |-> 0]

\* the Child threads started by listen() (Server.js:68-70)
Workers == 1..numChildren

\* the uuid of no WebSocket
NoUuid == 0

\* a Child thread that has not upgraded a connection: its position ("idle",
\* "run", "onclose", "closed") and the request uri of its WebSocket
NoWorker == [pc |-> "idle", uri |-> ""]

\* no broadcast thread runs: its position ("none", "started", "iterating",
\* "done", "failed"), the sender's uuid, the path, the entries the iteration
\* started with, the keys still to visit, the number of frames sent to
\* each uuid, and the uuid at which a send failed.  A thread that ended
\* keeps its position and that uuid only.
NoBroadcast == [pc |-> "none", me |-> NoUuid, path |-> "", snap |-> {},
                todo |-> {}, sent |-> <<>>, failed |-> NoUuid]

\* no payload framed by rawSendMessage yet: the payload, and what getMessage
\* returned for its frame
NoEcho == [sent |-> <<>>, head |-> <<>>, ret |-> "", got |-> <<>>]

\* the WebSockets and the threads followed through send(), ping() and pong()
Sockets == {1, 2}
Senders == {1, 2, 3}

\* a thread outside send(), ping() and pong(): its position ("outside",
\* "inside"), the WebSocket and the frame of the call it is in, the number
\* of bytes of the frame it has written, and the calls it has made
NoSender == [pc |-> "outside", ws |-> NoUuid, frame |-> <<>>, n |-> 0, calls |-> 0]

\* the default of maxUpload: 10 * 1024 * 1024 (Request:136)
maxUpload == 10485760

\* what the client sends for one request: `eof` names the read at which the
\* stream ends ("" when the request is complete), `line` is the request line
\* and contentLength the value of the Content-Length header
Stream(eof, line, contentLength) ==
    [eof |-> eof, line |-> line, contentLength |-> contentLength]

\* streams on which new Request(is) throws
BadStreams ==
    {Stream("requestLine", "", 0), Stream("headerLine", "GET / HTTP/1.1", 0),
     Stream("", "", 0), Stream("", "POST / HTTP/1.1", maxUpload + 1)}

\* streams new Request(is) parses
GoodStreams ==
    {Stream("", "GET / HTTP/1.1", 0), Stream("", "POST / HTTP/1.1", maxUpload)}

\* new Request(is, maxUpload) reading the body before it tests its length
Request_ReadsFirst(is) ==
    CASE is.eof = "requestLine" \/ (is.eof = "headerLine" /\ is.line # "") ->
            [threw |-> "EOF", at |-> is.eof, bodyRead |-> 0, contentLength |-> 0]
      [] is.eof # "requestLine" /\ is.line = "" ->
            [threw |-> "Error", at |-> "uri", bodyRead |-> 0, contentLength |-> 0]
      [] OTHER ->
            [threw |-> IF is.contentLength > maxUpload THEN "Error" ELSE "",
             at |-> IF is.contentLength > maxUpload THEN "contentLength" ELSE "",
             bodyRead |-> is.contentLength, contentLength |-> is.contentLength]

\* new Request(is, maxUpload): what it throws ("" when it returns), the place
\* where it throws, and the number of body bytes it has read from the stream
\* by then
Request(is) ==
    CASE is.eof = "requestLine" ->
            [threw |-> "EOF", at |-> "requestLine", bodyRead |-> 0,
             contentLength |-> 0]
      [] is.eof # "requestLine" /\ is.line = "" ->
            [threw |-> "Error", at |-> "uri", bodyRead |-> 0, contentLength |-> 0]
      [] is.eof = "headerLine" /\ is.line # "" ->
            [threw |-> "EOF", at |-> "headerLine", bodyRead |-> 0,
             contentLength |-> 0]
      [] is.eof = "" /\ is.line # "" /\ is.contentLength > maxUpload ->
            [threw |-> "Error", at |-> "contentLength", bodyRead |-> 0,
             contentLength |-> is.contentLength]
      [] OTHER ->
            [threw |-> "", at |-> "", bodyRead |-> is.contentLength,
             contentLength |-> is.contentLength]

Init ==
    /\ pc = "accept"
    /\ sock = "none"
    /\ keepAlive = TRUE
    /\ hKeepAlive = TRUE
    /\ served = 0
    /\ req = NoReq
    /\ res = NoRes
    /\ nops = 0
    /\ fin = NoFin
    /\ lastOp = NoOp
    /\ notes = <<>>
    /\ parsed = NoParse
    /\ workers = [w \in Workers |-> NoWorker]
    /\ webSockets = {}
    /\ bc = NoBroadcast
    /\ pool = <<>>
    /\ threads = {}
    /\ echo = NoEcho
    /\ wsIn = <<>>
    /\ ended = FALSE
    /\ frames = <<>>
    /\ nread = 0
    /\ wsOut = <<>>
    /\ loop = "run"
    /\ log = <<>>
    /\ hdr = [n |-> 0, cl |-> 0, body |-> 0, threw |-> "", headers |-> EmptyMap,
              lines |-> 0, bodyRead |-> 0]
    /\ form = [post |-> <<>>, pairs |-> <<>>, threw |-> "", data |-> EmptyMap,
               query |-> EmptyMap]
    /\ monitor = [o \in Sockets \cup {NoUuid} |-> NoUuid]
    /\ senders = [t \in Senders |-> NoSender]
    /\ out = [ws \in Sockets |-> <<>>]

\* serverSocket.accept() and the start of the request loop (Child.js:74-80)
Accept ==
    /\ pc = "accept"
    /\ pc' = "loop"
    /\ sock' = "open"
    /\ keepAlive' = TRUE
    /\ served' = 0
    /\ fin' = NoFin
    /\ notes' = <<>>
    /\ parsed' = NoParse
    /\ UNCHANGED <<hKeepAlive, req, res, nops, lastOp, wsVars, poolVars, codecVars, syncVars>>

\* the catch clause of the request loop without the test for 'EOF'
Catch_EofContinues(e, ka) ==
    CASE e = "THREAD.EXIT" -> [keepAlive |-> ka, how |-> "rethrow"]
      [] e = "RES.STOP" \/ e = "EOF" -> [keepAlive |-> ka, how |-> "next"]
      [] OTHER -> [keepAlive |-> FALSE, how |-> "next"]

\* a catch clause that treats RES.STOP like any other exception
Catch_StopCloses(e, ka) ==
    CASE e = "THREAD.EXIT" -> [keepAlive |-> ka, how |-> "rethrow"]
      [] e = "EOF" -> [keepAlive |-> ka, how |-> "break"]
      [] OTHER -> [keepAlive |-> FALSE, how |-> "next"]

\* what the catch clause of the request loop does with exception e
\* (Child.js:89-106): the new keepAlive and how the loop body is left.
\* Reading e.dumpText of null throws a TypeError out of the catch clause,
\* which leaves both loops as the rethrown 'THREAD.EXIT' does.
Catch(e, ka) ==
    CASE e = "THREAD.EXIT" -> [keepAlive |-> ka, how |-> "rethrow"]
      [] e = "EOF" -> [keepAlive |-> ka, how |-> "break"]
      [] e = "null" -> [keepAlive |-> ka, how |-> "rethrow"]
      [] e = "JavaException" -> [keepAlive |-> FALSE, how |-> "next"]
      [] e = "RES.STOP" -> [keepAlive |-> ka, how |-> "next"]
      [] OTHER -> [keepAlive |-> FALSE, how |-> "next"]

\* the rest of one iteration of the request loop after the loop body was
\* left in the way `how` with keepAlive = ka: the while test, and after the
\* loop the release of the streams and the socket (Child.js:81, 108-110)
LoopTail(how, ka) ==
    /\ keepAlive' = ka
    /\ IF how = "rethrow"
       THEN pc' = "exited" /\ sock' = "abandoned"
       ELSE IF how = "next" /\ ka
            THEN pc' = "loop" /\ sock' = sock
            ELSE pc' = "accept" /\ sock' = "destroyed"

\* the exception e escapes handleRequest
Raise(e) ==
    LET c == Catch(e, keepAlive) IN LoopTail(c.how, c.keepAlive)

\* handleRequest returned ret (Child.js:84-85)
Returned(ret) == LoopTail("next", keepAlive /\ ret)

\* the headers handleRequest sets for a request that is not an upgrade
\* (Child.js:158-165)
ConnectionHeaders(connection, h) ==
    IF connection = "keep-alive"
    THEN Put(Put(h, "Connection", "Keep-Alive"), "keep-alive", "timeout: 5; max = 10000000")
    ELSE Put(h, "Connection", "close")

\* the keep-alive test against the header value as the response spells it
ConnectionKeepAlive_WrongCase(connection) == connection = "Keep-Alive"

\* handleRequest's keepAlive before the handler is called (Child.js:134, 158-165)
ConnectionKeepAlive(connection) == connection = "keep-alive"

\* new Request(is) fails: end of stream, or an Error (Child.js:132)
ParseFails ==
    /\ pc = "loop"
    /\ \E is \in BadStreams :
        /\ parsed' = Request(is)
        /\ Raise(parsed'.threw)
    /\ UNCHANGED <<hKeepAlive, served, req, res, nops, fin, lastOp, notes, wsVars, poolVars, codecVars, syncVars>>

\* handleRequest up to the call of the handler (Child.js:132-165)
ParseRequest ==
    /\ pc = "loop"
    /\ served < MaxReqs
    /\ \E c \in ConnectionValues \ {"upgrade"} :
        LET connection == toLowerCase(c) IN
        /\ req' = [connection |-> c, upgrade |-> "", uri |-> "/"]
        /\ res' = [Response EXCEPT !.headers = ConnectionHeaders(connection, @)]
        /\ hKeepAlive' = ConnectionKeepAlive(connection)
    /\ \E is \in GoodStreams : parsed' = Request(is)
    /\ notes' = <<"startRequest">>
    /\ served' = served + 1
    /\ nops' = 0
    /\ lastOp' = NoOp
    /\ pc' = "handler"
    /\ UNCHANGED <<sock, keepAlive, fin, wsVars, poolVars, codecVars, syncVars>>

\* a request with Connection: upgrade that builds no WebSocket: its Upgrade
\* header is absent or is not websocket, or its route is not registered
\* (Child.js:145-157)
UpgradeRefused ==
    /\ pc = "loop"
    /\ served < MaxReqs
    /\ \E u \in WsUpgradeValues, uri \in Uris \cup {"/none"} :
        /\ Upgrades(u, uri) # "WebSocket"
        /\ req' = [connection |-> "upgrade", upgrade |-> u, uri |-> uri]
        /\ IF Upgrades(u, uri) = "Error"
           THEN /\ Raise("Error")
                /\ notes' = <<"startRequest">>
                /\ fin' = [op |-> "throw", ret |-> "Error",
                           connection |-> "upgrade", n |-> served + 1]
           ELSE /\ Returned(FALSE)
                /\ notes' = <<"startRequest", "endRequest">>
                /\ fin' = [op |-> "upgrade", ret |-> "false",
                           connection |-> "upgrade", n |-> served + 1]
    /\ parsed' = Request(Stream("", "GET /ws HTTP/1.1", 0))
    /\ res' = Response
    /\ served' = served + 1
    /\ nops' = 0
    /\ lastOp' = NoOp
    /\ UNCHANGED <<hKeepAlive, wsVars, poolVars, codecVars, syncVars>>

\* handleRequest ignoring what the handler returned
HandlerKeepAlive_IgnoresFalse(ka, ret) == ka

\* what handleRequest returns when the handler returned ret (Child.js:166-171)
HandlerKeepAlive(ka, ret) == IF ret = "false" THEN FALSE ELSE ka

Finished(op, ret) ==
    [op |-> op, ret |-> ret, connection |-> toLowerCase(req.connection), n |-> served]

\* the handler returns ret (Child.js:166-171, 84-85)
HandlerReturns ==
    /\ pc = "handler"
    /\ \E ret \in ReturnValues :
        /\ res' = destroy(IF ret = "false"
                          THEN setHeader(res, "Connection", "close") ELSE res)
        /\ hKeepAlive' = HandlerKeepAlive(hKeepAlive, ret)
        /\ Returned(hKeepAlive')
        /\ fin' = Finished("return", ret)
    /\ notes' = Append(notes, "endRequest")
    /\ parsed' = NoParse
    /\ nops' = 0 /\ lastOp' = NoOp /\ UNCHANGED <<served, req, wsVars, poolVars, codecVars, syncVars>>

\* the handler calls res.stop() (Response.js:507-509)
HandlerStops ==
    /\ pc = "handler"
    /\ Raise("RES.STOP")
    /\ fin' = Finished("stop", "")
    /\ parsed' = NoParse
    /\ nops' = 0 /\ lastOp' = NoOp
    /\ UNCHANGED <<hKeepAlive, served, req, res, notes, wsVars, poolVars, codecVars, syncVars>>

\* the handler throws, or calls Thread.exit()
HandlerThrows ==
    /\ pc = "handler"
    /\ \E e \in Thrown :
        /\ Raise(e)
        /\ fin' = Finished("throw", e)
    /\ parsed' = NoParse
    /\ nops' = 0 /\ lastOp' = NoOp
    /\ UNCHANGED <<hKeepAlive, served, req, res, notes, wsVars, poolVars, codecVars, syncVars>>

\* the exit listener starts a replacement thread (Child.js:62-64)
Respawn ==
    /\ pc = "exited"
    /\ pc' = "accept"
    /\ UNCHANGED <<sock, keepAlive, hKeepAlive, served, req, res, nops, fin, lastOp,
                   notes, parsed, wsVars, poolVars, codecVars, syncVars>>

----------------------------------------------------------------------------
(* Response operations performed by the handler *)

\* the handler performs the operation `op` with arguments `args`, which
\* turns res into r; lastOp keeps the number of records written and
\* headersSent as they were before the call
Op(r, op, args) ==
    /\ pc = "handler"
    /\ nops < MaxOps
    /\ res' = r
    /\ nops' = nops + 1
    /\ lastOp' = [op |-> op, args |-> args, before |-> Len(res.wire),
                  sent |-> res.headersSent]
    /\ fin' = NoFin
    /\ parsed' = NoParse
    /\ UNCHANGED <<pc, sock, keepAlive, hKeepAlive, served, req, notes, wsVars, poolVars, codecVars, syncVars>>

DoSendHeaders == Op(sendHeaders(res), "sendHeaders", <<>>)

DoDestroy == Op(destroy(res), "destroy", <<>>)

\* arguments the handler passes
WriteHeadArgs == {<<404, EmptyMap>>, <<200, [k \in {"X-A"} |-> "1"]>>}
SetHeaderArgs == {<<"X-A", "2">>, <<"Set-Cookie", "raw=1">>}
SetCookieArgs == {<<"sid", "a", "", "", "">>, <<"sid", "b", "Wed", "/p", "d">>}
CookieKeys == {"sid"}
Chunks == {"abc"}
EndArgs == {<<Undefined, FALSE>>, <<Str("hello"), FALSE>>, <<Str("hello"), TRUE>>}
SendArgs == {<<404, Undefined>>, <<0, Str("hi")>>, <<200, Obj("{}")>>}
Bytes == {"bytes"}
LastModifieds == {0, 2500}
Sinces == {NoSince, SinceString(1000), SinceString(2000), SinceString(3000)}
Files == {[extension |-> "txt", modified |-> 0, content |-> ""],
          [extension |-> "html", modified |-> 2500, content |-> "file"]}
Urls == {[abs |-> "", rest |-> "/x"], [abs |-> "http://", rest |-> "a/"],
         [abs |-> "https://", rest |-> "b/"]}
Host == "localhost"
Port == "80"

DoWriteHead ==
    \E a \in WriteHeadArgs :
        Op(writeHead(res, a[1], a[2]), "writeHead", <<>>)

DoSetHeader ==
    \E a \in SetHeaderArgs :
        Op(setHeader(res, a[1], a[2]), "setHeader", <<>>)

DoSetCookie ==
    \E a \in SetCookieArgs :
        Op(setCookie(res, a[1], a[2], a[3], a[4], a[5]), "setCookie", <<>>)

DoUnsetCookie ==
    \E k \in CookieKeys :
        Op(unsetCookie(res, k), "unsetCookie", <<>>)

DoWrite ==
    \E s \in Chunks :
        Op(write(res, s), "write", <<>>)

DoEnd ==
    \E a \in EndArgs :
        Op(end(res, a[1], a[2]), "end", <<>>)

DoSend ==
    \E a \in SendArgs :
        Op(send(res, a[1], a[2]), "send", <<>>)

DoSendBytes ==
    \E b \in Bytes, lm \in LastModifieds, ms \in Sinces :
        Op(sendBytes(res, b, "image/png", lm, ms),
           "sendBytes", [content |-> b, modified |-> lm, since |-> ms])

\* res.sendFile(filename, modifiedSince); a missing file makes it throw
\* (Response.js:283-285) and the handler lets the Error escape
DoSendFile ==
    \E f \in Files, ms \in Sinces :
        IF f.modified = 0
        THEN /\ pc = "handler"
             /\ nops < MaxOps
             /\ Raise("Error")
             /\ fin' = Finished("throw", "Error")
             /\ parsed' = NoParse
             /\ nops' = 0 /\ lastOp' = NoOp
             /\ UNCHANGED <<hKeepAlive, served, req, res, notes, wsVars, poolVars, codecVars, syncVars>>
        ELSE Op(sendFile(res, f, ms),
                "sendFile", [content |-> f.content, modified |-> f.modified, since |-> ms])

\* the handler calls res.redirect(url) (Response.js:534-551)
HandlerRedirects ==
    /\ pc = "handler"
    /\ \E u \in Urls : res' = redirect(res, u, Host, Port)
    /\ Raise("RES.STOP")
    /\ fin' = Finished("redirect", "")
    /\ parsed' = NoParse
    /\ nops' = 0 /\ lastOp' = NoOp
    /\ UNCHANGED <<hKeepAlive, served, req, notes, wsVars, poolVars, codecVars, syncVars>>

----------------------------------------------------------------------------
(* The registry of WebSocket.js, run() and broadcast().  Each of the
   numChildren workers is followed through one upgraded connection: the
   uuid of its WebSocket is the worker's number.  onmessage and onclose are
   user code: they return or throw, and onmessage may call broadcast().  One
   broadcast thread is followed at a time. *)

\* the uuids of a set of registry entries
Uuids(entries) == {e.uuid : e \in entries}

\* webSockets[this.uuid] = this (WebSocket.js:162)
Register(reg, id, uri) == reg \cup {[uuid |-> id, uri |-> uri]}

\* the worker accepts a connection, the upgrade builds a WebSocket, the
\* connect callback returns and run() registers the WebSocket
\* (Child.js:151-154, WebSocket.js:155-162)
WsRun(w) ==
    /\ workers[w].pc = "idle"
    /\ \E uri \in Uris :
        /\ workers' = [workers EXCEPT ![w] = [pc |-> "run", uri |-> uri]]
        /\ webSockets' = Register(webSockets, w, uri)
    /\ UNCHANGED <<bc, httpVars, poolVars, codecVars, syncVars>>

\* the broadcast paths tried
Paths == {"/chat"}

\* onmessage, or a 'message' listener, calls me.broadcast(path, message),
\* which starts a thread (WebSocket.js:143-153, 166-176)
WsBroadcast(w) ==
    /\ workers[w].pc = "run"
    /\ bc.pc \notin {"started", "iterating"}
    /\ \E path \in Paths :
        bc' = [NoBroadcast EXCEPT !.pc = "started", !.me = w, !.path = path]
    /\ UNCHANGED <<workers, webSockets, httpVars, poolVars, codecVars, syncVars>>

\* getMessage returns false: a close frame, or a failure while reading or
\* decoding (WebSocket.js:166, 228-308); run() goes on to onclose
WsLoopEnds(w) ==
    /\ workers[w].pc = "run"
    /\ workers' = [workers EXCEPT ![w] = [@ EXCEPT !.pc = "onclose"]]
    /\ UNCHANGED <<webSockets, bc, httpVars, poolVars, codecVars, syncVars>>

\* run() removing the WebSocket only when onclose and the 'close' listeners
\* return
Finally_OnlyOnReturn(reg, id, threw) ==
    IF threw THEN reg ELSE {e \in reg : e.uuid # id}

\* the registry after the finally blocks of run() (WebSocket.js:177-185);
\* threw: onclose or a 'close' listener threw
Finally(reg, id, threw) == {e \in reg : e.uuid # id}

\* a ^ b on bytes (WebSocket.js:282)
RECURSIVE Xor(_, _)
Xor(a, b) ==
    IF a = 0 THEN b
    ELSE IF b = 0 THEN a
    ELSE ((a + b) % 2) + 2 * Xor(a \div 2, b \div 2)

\* the GUID of the WebSocket protocol (WebSocket.js:15)
GUID ==
    <<
        "2", "5", "8", "E", "A", "F", "A", "5", "-", "E", "9", "1", "4", "-",
        "4", "7", "D", "A", "-", "9", "5", "C", "A", "-", "C", "5", "A", "B",
        "0", "D", "C", "8", "5", "B", "1", "1"
    >>

\* sha1(s) of the support module: the SHA-1 digest of the string s, whose
\* characters are of Ascii, as 40 hexadecimal digits.  A 32-bit word is the
\* pair of its 16-bit halves.
sha1(s) ==
    LET RECURSIVE And(_, _)
        And(a, b) == IF a = 0 \/ b = 0 THEN 0
                     ELSE (a % 2) * (b % 2) + 2 * And(a \div 2, b \div 2)
        Or(a, b) == a + b - And(a, b)
        Not(a) == 65535 - a
        X(v, w) == <<Xor(v[1], w[1]), Xor(v[2], w[2])>>
        Add(v, w) == <<(v[1] + w[1] + ((v[2] + w[2]) \div 65536)) % 65536,
                       (v[2] + w[2]) % 65536>>
        \* rotate left by n < 16 bits
        Rotl(v, n) == <<((v[1] * (2 ^ n)) % 65536) + (v[2] \div (2 ^ (16 - n))),
                        ((v[2] * (2 ^ n)) % 65536) + (v[1] \div (2 ^ (16 - n)))>>
        \* rotate left by 30 bits
        Rotl30(v) == <<(v[1] \div 4) + ((v[2] % 4) * 16384),
                       (v[2] \div 4) + ((v[1] % 4) * 16384)>>
        \* the characters of codes 43 to 122, in the order of their codes; the
        \* character of code 96 cannot be written in a string and is left empty
        Ascii ==
          <<
        "+", ",", "-", ".", "/", "0", "1", "2", "3", "4", "5", "6", "7", "8",
        "9", ":", ";", "<", "=", ">", "?", "@", "A", "B", "C", "D", "E", "F",
        "G", "H", "I", "J", "K", "L", "M", "N", "O", "P", "Q", "R", "S", "T",
        "U", "V", "W", "X", "Y", "Z", "[", "\\", "]", "^", "_", "", "a", "b",
        "c", "d", "e", "f", "g", "h", "i", "j", "k", "l", "m", "n", "o", "p",
        "q", "r", "s", "t", "u", "v", "w", "x", "y", "z"
          >>
        charCode(c) == 42 + CHOOSE i \in 1..Len(Ascii) : Ascii[i] = c
        bits == 8 * Len(s)
        zeros == (119 - Len(s)) % 64
        padded == [i \in 1..Len(s) |-> charCode(s[i])] \o <<128>>
                    \o [i \in 1..zeros |-> 0]
                    \o <<0, 0, 0, 0, 0, 0, bits \div 256, bits % 256>>
        Word(m, i) == <<m[i] * 256 + m[i + 1], m[i + 2] * 256 + m[i + 3]>>
        RECURSIVE Sched(_)
        Sched(w) == IF Len(w) = 80 THEN w
                    ELSE LET t == Len(w) + 1
                         IN Sched(Append(w, Rotl(X(X(w[t - 3], w[t - 8]),
                                                   X(w[t - 14], w[t - 16])), 1)))
        F(t, b, c, d) ==
            CASE t < 20 -> <<Or(And(b[1], c[1]), And(Not(b[1]), d[1])),
                             Or(And(b[2], c[2]), And(Not(b[2]), d[2]))>>
              [] t >= 40 /\ t < 60 ->
                    <<Or(Or(And(b[1], c[1]), And(b[1], d[1])), And(c[1], d[1])),
                      Or(Or(And(b[2], c[2]), And(b[2], d[2])), And(c[2], d[2]))>>
              [] OTHER -> X(X(b, c), d)
        K(t) == CASE t < 20 -> <<23170, 31129>>
                  [] t >= 20 /\ t < 40 -> <<28377, 60321>>
                  [] t >= 40 /\ t < 60 -> <<36635, 48348>>
                  [] OTHER -> <<51810, 49622>>
        \* the rounds from the one numbered h[6] on, h[1..5] being a, b, c, d, e
        RECURSIVE Rounds(_, _)
        Rounds(h, w) ==
            IF h[6] = 80 THEN h
            ELSE Rounds(<<Add(Add(Add(Add(Rotl(h[1], 5), F(h[6], h[2], h[3], h[4])),
                                      h[5]), K(h[6])), w[h[6] + 1]),
                          h[1], Rotl30(h[2]), h[3], h[4], h[6] + 1>>,
                        w)
        RECURSIVE Blocks(_, _)
        Blocks(m, h) ==
            IF m = <<>> THEN h
            ELSE LET r == Rounds(h \o <<0>>, Sched([i \in 1..16 |-> Word(m, 4 * i - 3)]))
                 IN Blocks(SubSeq(m, 65, Len(m)), [i \in 1..5 |-> Add(h[i], r[i])])
        digest == Blocks(padded, <<<<26437, 8961>>, <<61389, 43913>>,
                                   <<39098, 56574>>, <<4146, 21622>>,
                                   <<50130, 57840>>>>)
        Digit(n) == <<"0", "1", "2", "3", "4", "5", "6", "7", "8", "9", "a", "b", "c", "d", "e", "f">>[n + 1]
        Half(n) == <<Digit(n \div 4096), Digit((n \div 256) % 16),
                     Digit((n \div 16) % 16), Digit(n % 16)>>
    IN  Half(digest[1][1]) \o Half(digest[1][2]) \o Half(digest[2][1])
        \o Half(digest[2][2]) \o Half(digest[3][1]) \o Half(digest[3][2])
        \o Half(digest[4][1]) \o Half(digest[4][2]) \o Half(digest[5][1])
        \o Half(digest[5][2])

\* base64_encode(buf) of the support module on a string of characters of
\* codes 0..255, given as the sequence of the codes
base64_encode(buf) ==
    LET Alphabet ==
          <<
            "A", "B", "C", "D", "E", "F", "G", "H", "I", "J", "K", "L", "M",
            "N", "O", "P", "Q", "R", "S", "T", "U", "V", "W", "X", "Y", "Z",
            "a", "b", "c", "d", "e", "f", "g", "h", "i", "j", "k", "l", "m",
            "n", "o", "p", "q", "r", "s", "t", "u", "v", "w", "x", "y", "z",
            "0", "1", "2", "3", "4", "5", "6", "7", "8", "9", "+", "/"
          >>
        RECURSIVE Enc(_)
        Enc(b) ==
            IF b = <<>> THEN <<>>
            ELSE LET b2 == IF Len(b) > 1 THEN b[2] ELSE 0
                     b3 == IF Len(b) > 2 THEN b[3] ELSE 0
                 IN <<Alphabet[(b[1] \div 4) + 1],
                      Alphabet[((b[1] % 4) * 16) + (b2 \div 16) + 1],
                      IF Len(b) > 1
                      THEN Alphabet[((b2 % 16) * 4) + (b3 \div 64) + 1] ELSE "=",
                      IF Len(b) > 2 THEN Alphabet[(b3 % 64) + 1] ELSE "=">>
                    \o Enc(SubSeq(b, 4, Len(b)))
    IN Enc(buf)

\* makeAccept hashing the key without the GUID
makeAccept_NoGuid(key) ==
    LET hex == sha1(key)
        parseInt(d) == CHOOSE n \in 0..15 : <<"0", "1", "2", "3", "4", "5", "6", "7", "8", "9", "a", "b", "c", "d", "e", "f">>[n + 1] = d
        buf == [i \in 1..(Len(hex) \div 2) |->
                    parseInt(hex[2 * i - 1]) * 16 + parseInt(hex[2 * i])]
    IN base64_encode(buf)

\* makeAccept(key) (WebSocket.js:23-34): buf is the string of the characters
\* String.fromCharCode(parseInt(hex.substr(0, 2), 16)), given as the
\* sequence of their codes
makeAccept(key) ==
    LET hex == sha1(key \o GUID)
        parseInt(d) == CHOOSE n \in 0..15 : <<"0", "1", "2", "3", "4", "5", "6", "7", "8", "9", "a", "b", "c", "d", "e", "f">>[n + 1] = d
        buf == [i \in 1..(Len(hex) \div 2) |->
                    parseInt(hex[2 * i - 1]) * 16 + parseInt(hex[2 * i])]
    IN base64_encode(buf)

\* makeAccept(req.headers['sec-websocket-key']) for the key of the request,
\* the key of the sample handshake of RFC 6455 (WebSocket.js:63)
SecWebSocketAccept ==
    makeAccept(
      <<
        "d", "G", "h", "l", "I", "H", "N", "h", "b", "X", "B", "s", "Z", "S",
        "B", "u", "b", "2", "5", "j", "Z", "Q", "=", "="
      >>)

\* new WebSocket(req, res) on the Response r: the 101 response is sent
\* (WebSocket.js:59-66)
WebSocket(r) ==
    sendHeaders([r EXCEPT
        !.status = 101,
        !.headers = extend(@, Put(Put(Put(EmptyMap,
            "Upgrade", "websocket"),
            "Connection", "upgrade"),
            "Sec-WebSocket-Accept", SecWebSocketAccept))])

\* uuid() for the WebSocket built for the request being handled
\* (WebSocket.js:71): no other WebSocket has it
uuid == numChildren + served

\* a request with Connection: upgrade and Upgrade: websocket on a registered
\* route: the WebSocket is built and the connect callback is called
\* (Child.js:132-153)
UpgradeAccepted ==
    /\ pc = "loop"
    /\ served < MaxReqs
    /\ \E u \in WsUpgradeValues, uri \in Uris \cup {"/none"} :
        /\ Upgrades(u, uri) = "WebSocket"
        /\ req' = [connection |-> "upgrade", upgrade |-> u, uri |-> uri]
    /\ res' = WebSocket(Response)
    /\ parsed' = Request(Stream("", "GET /chat HTTP/1.1", 0))
    /\ notes' = <<"startRequest">>
    /\ served' = served + 1
    /\ nops' = 0
    /\ lastOp' = NoOp
    /\ pc' = "connect"
    /\ UNCHANGED <<sock, keepAlive, hKeepAlive, fin, wsVars, poolVars, codecVars, syncVars>>

\* the connect callback returns and run() registers the WebSocket
\* (Child.js:153-154, WebSocket.js:155-162)
ConnectReturns ==
    /\ pc = "connect"
    /\ webSockets' = Register(webSockets, uuid, req.uri)
    /\ pc' = "run"
    /\ UNCHANGED <<sock, keepAlive, hKeepAlive, served, req, res, nops, fin,
                   lastOp, notes, parsed, workers, bc, poolVars, codecVars, syncVars>>

\* the connect callback throws (Child.js:153): run() is not called
ConnectThrows ==
    /\ pc = "connect"
    /\ \E e \in WsThrown :
        /\ Raise(e)
        /\ fin' = Finished("connect", e)
    /\ UNCHANGED <<hKeepAlive, served, req, res, nops, lastOp, notes, parsed,
                   wsVars, poolVars, codecVars, syncVars>>

\* getMessage returns false (WebSocket.js:166, 228-308)
RunEnds ==
    /\ pc = "run"
    /\ pc' = "onclose"
    /\ UNCHANGED <<sock, keepAlive, hKeepAlive, served, req, res, nops, fin,
                   lastOp, notes, parsed, wsVars, poolVars, codecVars, syncVars>>

\* onclose and the 'close' listeners return, the WebSocket is removed, run()
\* returns and handleRequest returns false (WebSocket.js:177-185,
\* Child.js:154-156, 84-85)
OncloseReturns ==
    /\ pc = "onclose"
    /\ webSockets' = Finally(webSockets, uuid, FALSE)
    /\ Returned(FALSE)
    /\ fin' = Finished("run", "false")
    /\ notes' = Append(notes, "endRequest")
    /\ UNCHANGED <<hKeepAlive, served, req, res, nops, lastOp, parsed,
                   workers, bc, poolVars, codecVars, syncVars>>

\* onclose or a 'close' listener throws: the inner finally removes the
\* WebSocket and the exception escapes run() and handleRequest
\* (WebSocket.js:177-185)
OncloseThrows ==
    /\ pc = "onclose"
    /\ webSockets' = Finally(webSockets, uuid, TRUE)
    /\ \E e \in WsThrown :
        /\ Raise(e)
        /\ fin' = Finished("onclose", e)
    /\ UNCHANGED <<hKeepAlive, served, req, res, nops, lastOp, notes, parsed,
                   workers, bc, poolVars, codecVars, syncVars>>

\* onclose and the 'close' listeners return or throw, the finally blocks
\* remove the WebSocket and run() ends (WebSocket.js:177-185)
WsOnclose(w) ==
    /\ workers[w].pc = "onclose"
    /\ \E threw \in BOOLEAN : webSockets' = Finally(webSockets, w, threw)
    /\ workers' = [workers EXCEPT ![w] = [@ EXCEPT !.pc = "closed"]]
    /\ UNCHANGED <<bc, httpVars, poolVars, codecVars, syncVars>>

\* the entries decaf.each(o, fn) passes to fn: those o has when the
\* iteration starts
each(o) == o

\* whether the iteration still passes the entry of key k to fn after the
\* registry became reg: an entry removed meanwhile may be passed or skipped
StillPassed(k, reg) == IF k \in Uuids(reg) THEN {TRUE} ELSE {TRUE, FALSE}

\* the broadcast thread starts iterating the registry (WebSocket.js:145-146)
BcStart ==
    /\ bc.pc = "started"
    /\ bc' = [bc EXCEPT !.pc = "iterating", !.snap = each(webSockets),
                        !.todo = Uuids(each(webSockets)),
                        !.sent = [k \in Uuids(each(webSockets)) |-> 0]]
    /\ UNCHANGED <<workers, webSockets, httpVars, poolVars, codecVars, syncVars>>

\* the test of the callback of broadcast without the comparison of uuids
Matches_PathOnly(ws, me, path) == ws.uri = path

\* ws.uuid !== me.uuid && ws.req.uri === path (WebSocket.js:147)
Matches(ws, me, path) == ws.uuid # me /\ ws.uri = path

\* the callback of broadcast on one entry (WebSocket.js:146-150): ws.send
\* writes the frame (WebSocket.js:83-86, 188-214), or the write to the socket
\* throws, which ends the iteration and the thread (Thread.js:254-270)
BcVisit ==
    /\ bc.pc = "iterating"
    /\ \E ws \in bc.snap : \E passed \in StillPassed(ws.uuid, webSockets) :
        /\ ws.uuid \in bc.todo
        /\ IF passed /\ Matches(ws, bc.me, bc.path)
           THEN \E ok \in BOOLEAN :
                IF ok
                THEN bc' = [bc EXCEPT !.todo = @ \ {ws.uuid},
                                      !.sent[ws.uuid] = @ + 1]
                ELSE bc' = [NoBroadcast EXCEPT !.pc = "failed", !.failed = ws.uuid]
           ELSE bc' = [bc EXCEPT !.todo = @ \ {ws.uuid}]
    /\ UNCHANGED <<workers, webSockets, httpVars, poolVars, codecVars, syncVars>>

\* the iteration is over and the thread ends
BcEnd ==
    /\ bc.pc = "iterating"
    /\ bc.todo = {}
    /\ bc' = [NoBroadcast EXCEPT !.pc = "done"]
    /\ UNCHANGED <<workers, webSockets, httpVars, poolVars, codecVars, syncVars>>

----------------------------------------------------------------------------
(* The pool of workers: listen() (Server.js:58-72), Thread (Thread.js) and
   the exit listener of Child (Child.js:62-64).  A worker is followed through
   accept, serving a connection, and the exit of its function. *)

\* new Thread(Child, serverSocket, server).start() (Thread.js:123-134,
\* 238-241)
Thread == [pc |-> "new", on |-> {}]

\* addThread(threadId, thread), called with the Java thread
\* (Thread.js:11-14, 258)
addThread(table, t) == table \cup {<<"java.lang.Thread", t>>}

\* removeThread(threadId), called with the Thread object (Thread.js:16-21,
\* 282)
removeThread(table, t) == table \ {<<"Thread", t>>}

\* exitHandler without fire('exit')
exitHandler_NoFire(th) == 0

\* the threads started by me.fire('exit') in exitHandler (Thread.js:277-278):
\* one for the listener Child registered (Child.js:62-64)
exitHandler(th) == IF "exit" \in th.on THEN 1 ELSE 0

\* the threads whose function is running the loops of Child
InLoop == {t \in DOMAIN pool : pool[t].pc \in {"accept", "serving"}}

\* the threads whose function has exited
Exited == {t \in DOMAIN pool : pool[t].pc \in {"exiting", "dead"}}

\* server.listen(port, bindAddress, numChildren) (Server.js:58-72)
listen ==
    /\ pool = <<>>
    /\ pool' = [i \in 1..numChildren |-> Thread]
    /\ UNCHANGED <<threads, httpVars, wsVars, codecVars, syncVars>>

\* runHandler up to the accept of Child: the thread is entered in the table
\* and Child registers its exit listener (Thread.js:254-259, Child.js:59-74)
runHandler(t) ==
    /\ pool[t].pc = "new"
    /\ threads' = addThread(threads, t)
    /\ pool' = [pool EXCEPT ![t] = [pc |-> "accept", on |-> {"exit"}]]
    /\ UNCHANGED <<httpVars, wsVars, codecVars, syncVars>>

\* accept returns a connection (Child.js:74)
Serve(t) ==
    /\ pool[t].pc = "accept"
    /\ pool' = [pool EXCEPT ![t].pc = "serving"]
    /\ UNCHANGED <<threads, httpVars, wsVars, codecVars, syncVars>>

\* the request loop ends and the connection is released (Child.js:81-110)
Served(t) ==
    /\ pool[t].pc = "serving"
    /\ pool' = [pool EXCEPT ![t].pc = "accept"]
    /\ UNCHANGED <<threads, httpVars, wsVars, codecVars, syncVars>>

\* the signal of Thread.exit(), or the TypeError of the catch clause,
\* escapes the loops of Child and is caught by runHandler (Child.js:90-92,
\* 96, Thread.js:259-266)
FnExits(t) ==
    /\ pool[t].pc = "serving"
    /\ Cardinality(Exited) < MaxExits
    /\ pool' = [pool EXCEPT ![t].pc = "exiting"]
    /\ UNCHANGED <<threads, httpVars, wsVars, codecVars, syncVars>>

\* the finally block of runHandler: exitHandler fires 'exit', whose listener
\* starts a Thread for Child, and removeThread is called (Thread.js:267-283)
ThreadExits(t) ==
    /\ pool[t].pc = "exiting"
    /\ pool' = [i \in 1..(Len(pool) + exitHandler(pool[t])) |->
                    IF i = t THEN [pool[t] EXCEPT !.pc = "dead"]
                    ELSE IF i <= Len(pool) THEN pool[i] ELSE Thread]
    /\ threads' = removeThread(threads, t)
    /\ UNCHANGED <<httpVars, wsVars, codecVars, syncVars>>

----------------------------------------------------------------------------
(* The frame codec of WebSocket.js: rawSendMessage, rawSendPing, rawSendPong
   and getMessage.  A string is the sequence of its character codes, a
   stream the sequence of its bytes (0..255). *)

\* decaf.toJavaByteArray(s): the bytes of the string in the platform's
\* encoding, UTF-8; a character below 128 is one byte, its code
toJavaByteArray(s) ==
    IF s \in Seq(0..127) THEN s
    ELSE LET RECURSIVE utf8(_)
             utf8(t) == IF t = <<>> THEN <<>>
                        ELSE (IF Head(t) < 128 THEN <<Head(t)>>
                              ELSE <<192 + (Head(t) \div 64), 128 + (Head(t) % 64)>>)
                             \o utf8(Tail(t))
         IN utf8(s)

\* the bytes rawSendMessage(s) writes (WebSocket.js:188-214); Shr(n) is
\* len >> n, whose shift count is taken modulo 32
rawSendMessage(s) ==
    LET len == Len(s)
        Shr(n) == len \div (2 ^ (n % 32))
    IN
    <<129>>
    \o (CASE len < 126 -> <<len>>
          [] len >= 126 /\ len < 65536 -> <<126, Shr(8) % 256, len % 256>>
          [] OTHER -> <<127>> \o [i \in 1..8 |-> Shr(64 - 8 * i) % 256])
    \o toJavaByteArray(s)

\* the bytes rawSendPing() writes (WebSocket.js:216-220)
rawSendPing == <<137, 0>>

\* rawSendPong() writing the opcode of a ping
rawSendPong_Ping == <<137, 0>>

\* the bytes rawSendPong() writes (WebSocket.js:222-226)
rawSendPong == <<138, 0>>

\* one pass of the while loop of getMessage on the unread bytes s
\* (WebSocket.js:238-295).  how: "frame" when the pass ends, "close" when
\* it returns false at a close frame, "EOF" when next() is called with no
\* byte left.  fin is the variable fin at the end of the pass, pong the
\* number of calls of this.pong(), size the number of bytes read.  Shl8(x)
\* is x << 8 on a 32-bit integer: the bits shifted past bit 31 are lost and
\* bit 31 is the sign.
Frame(s) ==
    LET Shl8(x) == LET low == x % 16777216
                   IN IF low < 8388608 THEN low * 256 ELSE (low - 16777216) * 256
        opCode == s[1] % 128
        pong == IF opCode = 9 THEN 1 ELSE 0
        len7 == s[2] % 128
        ext == CASE len7 = 126 -> 2 [] len7 = 127 -> 8 [] OTHER -> 0
        len == CASE len7 = 126 -> s[3] * 256 + s[4]
                 [] len7 = 127 ->
                        LET RECURSIVE len64(_)
                            len64(i) == IF i = 0 THEN 0
                                        ELSE Shl8(len64(i - 1)) + s[2 + i]
                        IN len64(8)
                 [] OTHER -> len7
        masked == s[2] \div 128 = 1
        at == 2 + ext + (IF masked THEN 4 ELSE 0)
        mask == SubSeq(s, at - 3, at)
        n == IF len > 0 THEN len ELSE 0
        Out(how, pongs) ==
            [how |-> how, fin |-> FALSE, payload |-> <<>>, pong |-> pongs,
             size |-> IF how = "close" THEN 1 ELSE Len(s)]
    IN  IF Len(s) < 1 THEN Out("EOF", 0)
        ELSE IF opCode = 8 THEN Out("close", 0)
        ELSE IF Len(s) < 2 \/ Len(s) < at \/ Len(s) < at + n
             THEN Out("EOF", pong)
        ELSE [how |-> "frame",
              fin |-> IF len = 0 THEN FALSE ELSE s[1] \div 128 = 1,
              payload |-> IF masked
                          THEN [i \in 1..n |->
                                   Xor(s[at + i], mask[((i - 1) % 4) + 1])]
                          ELSE SubSeq(s, at + 1, at + n),
              pong |-> pong,
              size |-> at + n]

\* the while loop of getMessage from the unread bytes s, with the message
\* accumulated, the pongs sent and the bytes read so far
\* (WebSocket.js:233-307)
RECURSIVE getMessageLoop(_, _, _, _)
getMessageLoop(s, message, pongs, read) ==
    LET f == Frame(s) IN
    IF f.how = "frame"
    THEN IF f.fin
         THEN [ret |-> "message", message |-> message \o f.payload,
               pongs |-> pongs + f.pong, read |-> read + f.size]
         ELSE getMessageLoop(SubSeq(s, f.size + 1, Len(s)), message \o f.payload,
                             pongs + f.pong, read + f.size)
    ELSE [ret |-> f.how, message |-> <<>>, pongs |-> pongs + f.pong,
          read |-> read + f.size]

\* getMessage(is) on the unread bytes s: ret is "message" when it returns
\* the message, "close" when it returns false at a close frame, and "EOF"
\* when next() finds no byte: it blocks, or throws and getMessage returns
\* false when the stream has ended (WebSocket.js:228-308)
getMessage(s) == getMessageLoop(s, <<>>, 0, 0)

\* the text payloads framed: every string of at most MaxText characters
\* among a, b and c, and one string of each of six lengths at the ends of
\* the three length classes
Texts ==
    UNION {[1..n -> {97, 98, 99}] : n \in 0..MaxText}
        \cup {[i \in 1..n |-> 97 + (i % 3)] :
                n \in {125, 126, 127, 65535, 65536, 70000}}

\* the first payload s is framed by rawSendMessage and the frame, alone on a stream that then
\* ends, is decoded by getMessage (WebSocket.js:188-214, 228-308)
Echo ==
    /\ echo = NoEcho
    /\ \E s \in Texts :
        LET m == getMessage(rawSendMessage(s)) IN
        echo' = [sent |-> s,
                 head |-> SubSeq(rawSendMessage(s), 1, Len(rawSendMessage(s)) - Len(s)),
                 ret |-> m.ret, got |-> m.message]
    /\ UNCHANGED <<wsIn, ended, frames, nread, wsOut, loop, log, form, hdr, httpVars, wsVars, poolVars,
                   syncVars>>

----------------------------------------------------------------------------
(* The message loop of one WebSocket (WebSocket.js:155-186) and the client
   at the other end of its connection *)

\* the bytes of the frame f as a client sends it, masked with the key
\* 37 fa 21 3d: the layout getMessage reads (WebSocket.js:238-288); the last
\* f.cut bytes are never sent
Wire(f) ==
    LET mask == <<55, 250, 33, 61>>
        whole == <<(IF f.fin THEN 128 ELSE 0) + f.op, 128 + Len(f.payload)>> \o mask
                    \o [i \in 1..Len(f.payload) |->
                            Xor(f.payload[i], mask[((i - 1) % 4) + 1])]
    IN SubSeq(whole, 1, Len(whole) - f.cut)

\* the client sends a frame: a text frame without FIN, with FIN, or with FIN
\* and no payload, a last continuation frame, a close frame, a ping with or
\* without payload, a pong or a frame of the reserved opcode 0xB
ClientSends ==
    /\ ~ended
    /\ Len(frames) < MaxFrames
    /\ \E f \in {[op |-> t[1], fin |-> t[2], payload |-> t[3], cut |-> 0] :
                    t \in {<<1, FALSE, <<97>>>>, <<1, TRUE, <<104, 101, 108, 108, 111>>>>,
                           <<1, TRUE, <<>>>>, <<0, TRUE, <<98>>>>, <<8, TRUE, <<>>>>,
                           <<9, TRUE, <<>>>>, <<9, TRUE, <<97>>>>, <<10, TRUE, <<>>>>,
                           <<11, TRUE, <<97>>>>}} :
        /\ frames' = Append(frames, f)
        /\ wsIn' = wsIn \o Wire(f)
    /\ UNCHANGED <<echo, ended, nread, wsOut, loop, log, form, hdr, httpVars, wsVars,
                   poolVars, syncVars>>

\* the connection ends, at the end of a frame or in the middle of one: a
\* readByte with no byte left fails, which getMessage catches
\* (WebSocket.js:229-231, 299-307)
ClientCloses ==
    /\ ~ended
    /\ ended' = TRUE
    /\ \/ UNCHANGED <<frames, wsIn>>
       \/ /\ Len(frames) < MaxFrames
          /\ \E f \in {[op |-> 9, fin |-> TRUE, payload |-> <<>>, cut |-> 5],
                       [op |-> 1, fin |-> TRUE, payload |-> <<97>>, cut |-> 1]} :
                /\ frames' = Append(frames, f)
                /\ wsIn' = wsIn \o Wire(f)
    /\ UNCHANGED <<echo, nread, wsOut, loop, log, form, hdr, httpVars, wsVars, poolVars,
                   syncVars>>

\* the position of run() after a catch clause that lets the strings
\* thrown by stop() and Thread.exit() pass, as the catch clause of Child does
Caught_StringsPass(e) == IF e \in {"RES.STOP", "THREAD.EXIT"} THEN "onclose" ELSE "run"

\* the position of run() after onmessage or a 'message' listener threw e:
\* catch (e) { console.exception(e) } catches whatever is thrown, and the
\* while loop goes on (WebSocket.js:166-176)
Caught(e) == "run"

\* one pass of the while loop of run(): getMessage returns once the bytes of
\* a message, a close frame or the end of the connection have arrived, having
\* written its pongs; a message is passed to onmessage and, unless
\* onmessage throws, to the 'message' listeners; `at` is the call that
\* throws e, if one does (WebSocket.js:166-176)
Receive ==
    /\ loop = "run"
    /\ LET m == getMessage(wsIn)
           RECURSIVE readTo(_, _)
           readTo(k, bytes) ==
                IF bytes <= 0 \/ k = Len(frames) THEN k
                ELSE readTo(k + 1, bytes - Len(Wire(frames[k + 1])))
       IN /\ m.ret = "EOF" => ended
          /\ wsIn' = SubSeq(wsIn, m.read + 1, Len(wsIn))
          /\ nread' = readTo(nread, m.read)
          /\ wsOut' = wsOut \o [i \in 1..(2 * m.pongs) |-> rawSendPong[2 - (i % 2)]]
          /\ IF m.ret = "message"
             THEN \E at \in {"", "onmessage", "message"}, e \in WsThrown :
                    /\ loop' = IF at = "" THEN "run" ELSE Caught(e)
                    /\ log' = log \o <<[call |-> "onmessage", message |-> m.message]>>
                                  \o (IF at = "onmessage" THEN <<>>
                                      ELSE <<[call |-> "message", message |-> m.message]>>)
             ELSE /\ loop' = "onclose"
                  /\ log' = log
    /\ UNCHANGED <<echo, ended, frames, form, hdr, httpVars, wsVars, poolVars, syncVars>>

\* the finally clause of run(): onclose is called and, unless it throws, the
\* 'close' listeners (WebSocket.js:177-185)
Close ==
    /\ loop = "onclose"
    /\ loop' = "closed"
    /\ \E threw \in BOOLEAN :
        log' = log \o <<[call |-> "onclose", message |-> <<>>]>>
                   \o (IF threw THEN <<>> ELSE <<[call |-> "close", message |-> <<>>]>>)
    /\ UNCHANGED <<echo, wsIn, ended, frames, nread, wsOut, form, hdr, httpVars, wsVars,
                   poolVars, syncVars>>

----------------------------------------------------------------------------
(* The header lines of a request in Request (part_000:166-195).  The name
   of a header is written as a number: 0 for Content-Length, i for the
   header X-i.  A header line is <<name, value>>, the blank line <<>>. *)

\* the loops that read the header lines `lines` left on the stream after
\* the request line: what they throw ("" when they end at the blank line),
\* the headers stored and the number of lines read (part_000:166-194)
readHeaders(lines) ==
    LET RECURSIVE whileLoop(_, _)
        whileLoop(pos, headers) ==
            IF pos > Len(lines)
            THEN [threw |-> "EOF", headers |-> headers, lines |-> pos - 1]
            ELSE IF lines[pos] = <<>>
            THEN [threw |-> "", headers |-> headers, lines |-> pos]
            ELSE whileLoop(pos + 1, headers)
        RECURSIVE forLoop(_)
        forLoop(st) ==
            IF st.i >= 64 THEN whileLoop(st.pos, st.headers)
            ELSE IF st.pos > Len(lines)
            THEN [threw |-> "EOF", headers |-> st.headers, lines |-> st.pos - 1]
            ELSE IF lines[st.pos] = <<>>
            THEN [threw |-> "", headers |-> st.headers, lines |-> st.pos]
            ELSE forLoop([i |-> st.i + 1, pos |-> st.pos + 1,
                          headers |-> Put(st.headers, lines[st.pos][1],
                                          lines[st.pos][2])])
    IN forLoop([i |-> 0, pos |-> 1, headers |-> EmptyMap])

\* a client sends a request of n header lines, the blank line and a body of
\* `body` bytes, Content-Length being header line cl when there is a body,
\* and Request reads the header lines and then the body of the length its
\* Content-Length header gives (part_000:166-194, 221-230)
Parse ==
    /\ hdr.lines = 0
    /\ \E n \in 0..MaxHeaders, body \in {0, 3} :
        \E cl \in IF body = 0 \/ n = 0 THEN {0} ELSE {1, n} :
            LET lines == [i \in 1..(n + 1) |->
                            IF i = n + 1 THEN <<>>
                            ELSE IF i = cl THEN <<0, body>> ELSE <<i, 1>>]
                got == readHeaders(lines)
            IN /\ body > 0 => cl > 0
               /\ hdr' = [n |-> n, cl |-> cl, body |-> body, threw |-> got.threw,
                          headers |-> got.headers, lines |-> got.lines,
                          bodyRead |-> IF got.threw = "" /\ Has(got.headers, 0)
                                       THEN got.headers[0] ELSE 0]
    /\ UNCHANGED <<echo, wsIn, ended, frames, nread, wsOut, loop, log, form, httpVars,
                   wsVars, poolVars, syncVars>>

----------------------------------------------------------------------------
(* The form decoder of Request (part_000:151-161, 289-300).  Strings are
   sequences of characters. *)

\* s.split(sep), sep one character
RECURSIVE split(_, _)
split(s, sep) ==
    IF \A i \in 1..Len(s) : s[i] # sep THEN <<s>>
    ELSE LET at == CHOOSE i \in 1..Len(s) : s[i] = sep /\ \A j \in 1..(i - 1) : s[j] # sep
         IN <<SubSeq(s, 1, at - 1)>> \o split(SubSeq(s, at + 1, Len(s)), sep)

\* decodeURIComponent(s.replace(/\+/g, ' ')), s undefined when the part had
\* no `=` (Request:154, 293): what it throws ("" when it returns) and its
\* value.  Each %XX of a character of code 32..126 is decoded to that
\* character; a % not followed by two hexadecimal digits, and a lone %XX of
\* a code of 128 or more, is a URIError.
decodeURIComponent(part) ==
    LET Chr == <<" ", "!", "\"", "#", "$", "%", "&", "'", "(", ")", "*", "+",
                ",", "-", ".", "/", "0", "1", "2", "3", "4", "5", "6", "7",
                "8", "9", ":", ";", "<", "=", ">", "?", "@", "A", "B", "C",
                "D", "E", "F", "G", "H", "I", "J", "K", "L", "M", "N", "O",
                "P", "Q", "R", "S", "T", "U", "V", "W", "X", "Y", "Z", "[",
                "\\", "]", "^", "_", "", "a", "b", "c", "d", "e", "f", "g",
                "h", "i", "j", "k", "l", "m", "n", "o", "p", "q", "r", "s",
                "t", "u", "v", "w", "x", "y", "z", "{", "|", "}", "~">>
        Digits == <<"0", "1", "2", "3", "4", "5", "6", "7", "8", "9",
                    "A", "B", "C", "D", "E", "F">>
        Lower == <<"0", "1", "2", "3", "4", "5", "6", "7", "8", "9",
                   "a", "b", "c", "d", "e", "f">>
        Hex(c) == IF \E i \in 1..16 : Digits[i] = c \/ Lower[i] = c
                  THEN (CHOOSE i \in 1..16 : Digits[i] = c \/ Lower[i] = c) - 1
                  ELSE -1
        RECURSIVE dec(_)
        dec(t) ==
            IF t = <<>> THEN [threw |-> "", value |-> <<>>]
            ELSE IF Head(t) = "%"
            THEN IF Len(t) < 3 THEN [threw |-> "URIError", value |-> <<>>]
                 ELSE LET code == 16 * Hex(t[2]) + Hex(t[3])
                          rest == dec(SubSeq(t, 4, Len(t)))
                      IN IF Hex(t[2]) < 0 \/ Hex(t[3]) < 0 \/ code < 32 \/ code > 126
                            \/ rest.threw # ""
                         THEN [threw |-> "URIError", value |-> <<>>]
                         ELSE [threw |-> "", value |-> <<Chr[code - 31]>> \o rest.value]
            ELSE LET rest == dec(Tail(t))
                 IN IF rest.threw # "" THEN rest
                    ELSE [threw |-> "",
                          value |-> <<IF Head(t) = "+" THEN " " ELSE Head(t)>> \o rest.value]
    IN IF Len(part) < 2 THEN [threw |-> "TypeError", value |-> <<>>] ELSE dec(part[2])

\* the query string q of the request line decoded into queryParams and data:
\* a part that does not decode is skipped (Request:151-161)
queryParams(q) ==
    LET parts == split(q, "&")
        RECURSIVE eachPart(_, _)
        eachPart(i, data) ==
            IF i > Len(parts) THEN data
            ELSE LET part == split(parts[i], "=")
                     value == decodeURIComponent(part)
                 IN eachPart(i + 1, IF value.threw # "" THEN data
                                    ELSE Put(data, part[1], value.value))
    IN IF q = <<>> THEN EmptyMap ELSE eachPart(1, EmptyMap)

\* the branch of Request for a body `post` of Content-Type
\* application/x-www-form-urlencoded: what it throws ("" when it does not)
\* and what it leaves in data (Request:289-300)
formData(post) ==
    LET parts == split(post, "&")
        RECURSIVE eachPart(_, _)
        eachPart(i, data) ==
            IF i > Len(parts) THEN [threw |-> "", data |-> data]
            ELSE LET part == split(parts[i], "=")
                     value == decodeURIComponent(part)
                 IN IF value.threw # "" THEN [threw |-> value.threw, data |-> data]
                    ELSE eachPart(i + 1, Put(data, part[1], value.value))
    IN IF (\E i \in 1..Len(post) : post[i] = "&") /\ (\E i \in 1..Len(post) : post[i] = "=")
       THEN eachPart(1, EmptyMap)
       ELSE [threw |-> "", data |-> Put(EmptyMap, <<"p", "o", "s", "t">>, post)]

\* a client posts a form of at most MaxPairs fields named a or b, with
\* Content-Type application/x-www-form-urlencoded and the body's
\* Content-Length, and Request decodes the body (Request:223-230, 289-300);
\* `query` is what the same string gives as a query string.  A field is
\* <<name, value, separator>>: name=value with the value URL-encoded,
\* name=% with an invalid escape, or the name alone.
Post ==
    /\ form.post = <<>>
    /\ \E n \in 1..MaxPairs :
        \E pairs \in [1..n -> ({<<"a">>, <<"b">>}
                                \X {<<"1">>, <<"2">>, <<>>, <<"x", "+", "y">>,
                                    <<"%", "4", "1", "%", "2", "b">>, <<"%">>}
                                \X {<<"=">>})
                             \cup ({<<"a">>, <<"b">>} \X {<<>>} \X {<<>>})] :
            LET RECURSIVE join(_)
                join(i) == pairs[i][1] \o pairs[i][3] \o pairs[i][2]
                              \o (IF i = n THEN <<>> ELSE <<"&">> \o join(i + 1))
                body == formData(join(1))
            IN form' = [post |-> join(1), pairs |-> pairs, threw |-> body.threw,
                        data |-> body.data, query |-> queryParams(join(1))]
    /\ UNCHANGED <<echo, wsIn, ended, frames, nread, wsOut, loop, log, hdr, httpVars,
                   wsVars, poolVars, syncVars>>

----------------------------------------------------------------------------
(* send(), ping() and pong() of two WebSockets, called by three threads: the
   workers of the two connections and a broadcast thread.  Each is a
   function synchronized on its WebSocket (WebSocket.js:83-104); it writes
   its frame byte by byte.  The client takes a frame off the connection
   once it is written whole. *)

\* sync(fn) without the lock argument: the functions are synchronized on the
\* global object
Lock_Global(ws) == 0

\* the object send, ping and pong of the WebSocket ws are synchronized on:
\* the second argument of sync, the WebSocket itself (WebSocket.js:86, 95, 104)
Lock(ws) == ws

\* thread t calls send('a'), ping() or pong() of the WebSocket ws and enters
\* the synchronized function: no thread is inside a function synchronized
\* on the same object (part_002:52-68, WebSocket.js:83-104)
Enter(t, ws) ==
    /\ senders[t].pc = "outside"
    /\ senders[t].calls < MaxCalls
    /\ monitor[Lock(ws)] = NoUuid
    /\ monitor' = [monitor EXCEPT ![Lock(ws)] = t]
    /\ \E frame \in {rawSendMessage(<<97>>), rawSendPing, rawSendPong} :
        senders' = [senders EXCEPT ![t] =
                        [pc |-> "inside", ws |-> ws, frame |-> frame, n |-> 0,
                         calls |-> @.calls + 1]]
    /\ UNCHANGED <<out, httpVars, wsVars, poolVars, codecVars>>

\* one os.write of rawSendMessage, rawSendPing or rawSendPong
\* (WebSocket.js:188-226)
Write(t) ==
    /\ senders[t].pc = "inside"
    /\ senders[t].n < Len(senders[t].frame)
    /\ out' = [out EXCEPT ![senders[t].ws] = Append(@, senders[t].frame[senders[t].n + 1])]
    /\ senders' = [senders EXCEPT ![t].n = @ + 1]
    /\ UNCHANGED <<monitor, httpVars, wsVars, poolVars, codecVars>>

\* the synchronized function returns (WebSocket.js:85, 94, 103)
Leave(t) ==
    /\ senders[t].pc = "inside"
    /\ senders[t].n = Len(senders[t].frame)
    /\ monitor' = [monitor EXCEPT ![Lock(senders[t].ws)] = NoUuid]
    /\ out' = [out EXCEPT ![senders[t].ws] = <<>>]
    /\ senders' = [senders EXCEPT ![t] = [NoSender EXCEPT !.calls = senders[t].calls]]
    /\ UNCHANGED <<httpVars, wsVars, poolVars, codecVars>>

----------------------------------------------------------------------------
(* The specifications *)

Next ==
    \/ Accept
    \/ ParseFails
    \/ ParseRequest
    \/ UpgradeRefused
    \/ UpgradeAccepted
    \/ ConnectReturns
    \/ ConnectThrows
    \/ RunEnds
    \/ OncloseReturns
    \/ OncloseThrows
    \/ HandlerReturns
    \/ HandlerStops
    \/ HandlerThrows
    \/ Respawn
    \/ DoSendHeaders
    \/ DoDestroy
    \/ DoWriteHead
    \/ DoSetHeader
    \/ DoSetCookie
    \/ DoUnsetCookie
    \/ DoWrite
    \/ DoEnd
    \/ DoSend
    \/ DoSendBytes
    \/ DoSendFile
    \/ HandlerRedirects

Spec == Init /\ [][Next]_vars

NextWs ==
    \/ \E w \in Workers : WsRun(w)
    \/ \E w \in Workers : WsBroadcast(w)
    \/ \E w \in Workers : WsLoopEnds(w)
    \/ \E w \in Workers : WsOnclose(w)
    \/ BcStart
    \/ BcVisit
    \/ BcEnd

SpecWs == Init /\ [][NextWs]_vars

NextPool ==
    \/ listen
    \/ \E t \in DOMAIN pool : runHandler(t)
    \/ \E t \in DOMAIN pool : Serve(t)
    \/ \E t \in DOMAIN pool : Served(t)
    \/ \E t \in DOMAIN pool : FnExits(t)
    \/ \E t \in DOMAIN pool : ThreadExits(t)

\* a started thread runs, and a thread whose function has exited runs its
\* finally block: the Java scheduler leaves no runnable thread behind
PoolFairness ==
    \A t \in 1..(numChildren + MaxExits) :
        WF_vars(t \in DOMAIN pool /\ runHandler(t))
            /\ WF_vars(t \in DOMAIN pool /\ ThreadExits(t))

SpecPool == Init /\ [][NextPool]_vars /\ PoolFairness

SpecEcho == Init /\ [][Echo]_vars

SpecCodec == Init /\ [][ClientSends \/ ClientCloses \/ Receive \/ Close]_vars

SpecHeaders == Init /\ [][Parse]_vars

SpecForm == Init /\ [][Post]_vars

SpecSync ==
    Init /\ [][\E t \in Senders : \/ \E ws \in Sockets : Enter(t, ws)
                                  \/ Write(t)
                                  \/ Leave(t)]_vars

----------------------------------------------------------------------------
(* Properties *)

\* the step ends the handling of the current request
Finishing == pc = "handler" /\ pc' # "handler"

\* the step is a Response operation of the handler
Operating == pc = "handler" /\ pc' = "handler" /\ nops' = nops + 1

Count(w, t) == Cardinality({i \in DOMAIN w : w[i].t = t})

\* the worker goes on with the request loop on the same connection
LoopsOn == pc' = "loop" /\ sock' = "open" /\ keepAlive'

\* the worker left the request loop and released the connection
Released == pc' = "accept" /\ sock' = "destroyed"

\* C1: when a request carries Connection: keep-alive and its handler returns
\* a value other than false, the worker keeps the connection and keepAlive,
\* and the next request on the connection is parsed into a new Response and
\* dispatched to the handler.
C1_KeepAliveServesNext ==
    [][/\ (Finishing /\ fin'.op = "return" /\ fin'.ret # "false"
                /\ toLowerCase(req.connection) = "keep-alive") => LoopsOn
       /\ (pc = "loop" /\ pc' = "handler") =>
            (served' = served + 1 /\ sock' = "open" /\ res'.wire = <<>>)]_vars

C1_Witness ==
    /\ pc = "handler" /\ served = 2 /\ nops = 0 /\ sock = "open"
    /\ fin.op = "return" /\ fin.ret # "false" /\ fin.connection = "keep-alive"
    /\ fin.n = 1

\* C2: when a request carries no Connection header or Connection: close,
\* the request loop ends and the connection is released after that request,
\* whether the handler returns, calls stop() or calls redirect().
C2_CloseEndsLoop ==
    [][(Finishing /\ fin'.op \in {"return", "stop", "redirect"}
            /\ toLowerCase(req.connection) \in {"", "close"}) => Released]_vars

C4_FalseCloses ==
    [][(Finishing /\ fin'.op = "return" /\ fin'.ret = "false") =>
            (~keepAlive' /\ Released /\ served' = served)]_vars

C4_Witness ==
    /\ fin.op = "return" /\ fin.ret = "false" /\ fin.connection = "keep-alive"
    /\ pc = "accept" /\ sock = "destroyed" /\ ~keepAlive

\* C5: the status line and header block of one response are written at most
\* once, and sendHeaders() called when headersSent is true writes nothing.
C5_HeadersOnce ==
    [][/\ Count(res'.wire, "head") <= 1
       /\ (Operating /\ lastOp'.op = "sendHeaders" /\ res.headersSent) =>
            res' = res]_vars

C5_Witness ==
    /\ pc = "handler" /\ lastOp.op = "sendHeaders" /\ lastOp.sent
    /\ Count(res.wire, "head") = 1

\* C6: once headersSent is true, writeHead, setHeader, setCookie and
\* unsetCookie leave status, headers and cookies of the response unchanged.
C6_MutatorsFrozen ==
    [][(Operating /\ res.headersSent
            /\ lastOp'.op \in {"writeHead", "setHeader", "setCookie", "unsetCookie"}) =>
            (/\ res'.status = res.status
             /\ res'.headers = res.headers
             /\ res'.cookies = res.cookies)]_vars

\* C7: on one response headersSent never goes from true to false, chunked
\* is never true while headersSent is false, and chunked goes from true to
\* false only through destroy().
C7_ForwardOnly ==
    [][/\ res'.chunked => res'.headersSent
       /\ pc = "handler" =>
            /\ res.headersSent => res'.headersSent
            /\ (res.chunked /\ ~res'.chunked) =>
                \/ (Operating /\ lastOp'.op = "destroy")
                \/ (Finishing /\ fin'.op = "return")]_vars

C7_Witness ==
    /\ pc = "handler" /\ lastOp.op = "destroy"
    /\ Count(res.wire, "term") = 1 /\ ~res.chunked /\ res.headersSent

\* C8: after any write(chunk) call chunked is true and the header block sent
\* for the response contains Transfer-Encoding.
C8_WriteIsChunked ==
    (pc = "handler" /\ lastOp.op = "write") =>
        /\ res.chunked
        /\ \E i \in DOMAIN res.wire :
            res.wire[i].t = "head" /\ Has(res.wire[i].hdrs, "Transfer-Encoding")

\* the response entered chunked mode
EnteredChunked(r) == r.chunked \/ Count(r.wire, "term") > 0

\* C9: every response that entered chunked mode has the zero-length chunk
\* terminator written exactly once when the handling of its request ends by
\* a normal return, by stop() or by redirect().
C9_TerminatorOnce ==
    [][(Finishing /\ fin'.op \in {"return", "stop", "redirect"} /\ EnteredChunked(res)) =>
            Count(res'.wire, "term") = 1]_vars

\* the records the last operation wrote
Written == SubSeq(res.wire, lastOp.before + 1, Len(res.wire))

\* C10: sendFile and sendBytes called with a modifiedSince date and a
\* last-modified time, compared in whole seconds: if modifiedSince is equal
\* or later the status is 304 and no body is written, if it is earlier the
\* full content is written with Content-Length equal to its size.
C10_NotModified ==
    (/\ pc = "handler"
     /\ lastOp.op \in {"sendFile", "sendBytes"}
     /\ lastOp.args.since.kind = "string"
     /\ lastOp.args.modified # 0) =>
        IF lastOp.args.since.ms \div MsPerSec >= lastOp.args.modified \div MsPerSec
        THEN res.status = 304 /\ Count(Written, "body") = 0
        ELSE /\ Count(Written, "body") = 1
             /\ Written[Len(Written)] = BodyRec(lastOp.args.content)
             /\ res.headers["Content-Length"] = Len(lastOp.args.content)

\* the message loop of worker w's WebSocket runs or has just ended
Running(w) == workers[w].pc \in {"run", "onclose"}

\* C11: a WebSocket is in the registry only while its message loop runs:
\* whichever way run() ends (getMessage returning false for a close frame or
\* a failure, then onclose or a 'close' listener returning or throwing), its
\* uuid is not a key of the registry afterwards.
C11_RemovedWhenRunEnds ==
    [][/\ \A w \in Workers :
            (Running(w) /\ workers'[w].pc \notin {"run", "onclose"}) =>
                w \notin Uuids(webSockets')
       /\ \A e \in webSockets' : workers'[e.uuid].pc \in {"run", "onclose"}]_vars

C11_Witness ==
    /\ \E w \in Workers : workers[w].pc = "closed" /\ w \notin Uuids(webSockets)
    /\ webSockets # {}

\* C12 (refuted): no entry is inserted into the registry or removed from it
\* while a broadcast thread is iterating it.
C12_MutualExclusion ==
    [][webSockets' # webSockets => bc.pc # "iterating"]_vars

\* C13: a broadcast never sends the message to the WebSocket it was called
\* on, also when the sender is in the registry and its request uri equals
\* the path.
C13_NotToSender ==
    \A k \in DOMAIN bc.sent : k = bc.me => bc.sent[k] = 0

C13_Witness ==
    /\ bc.pc = "iterating" /\ bc.todo = {}
    /\ [uuid |-> bc.me, uri |-> bc.path] \in bc.snap
    /\ \E k \in DOMAIN bc.sent : bc.sent[k] = 1

\* C14 (refuted): when a broadcast thread ends, every WebSocket that was in
\* the registry all through the iteration, whose request uri equals the path
\* and whose uuid differs from the sender's, has been sent the message exactly
\* once (the one whose own send failed apart), and no other WebSocket has
\* been sent it.
C14_ExactlyTheMatching ==
    [][(bc.pc = "iterating" /\ bc'.pc \in {"done", "failed"}) =>
            \A e \in bc.snap :
                IF Matches(e, bc.me, bc.path)
                THEN (e \in webSockets /\ e.uuid # bc'.failed) =>
                        bc.sent[e.uuid] = 1
                ELSE bc.sent[e.uuid] = 0]_vars

\* the step in which the upgrade branch of handleRequest ends
UpgradeEnds ==
    \/ pc = "loop" /\ served' = served + 1 /\ req'.connection = "upgrade"
            /\ pc' # "connect"
    \/ pc \in {"connect", "onclose"} /\ pc' \notin {"connect", "run", "onclose"}

\* C15 (refuted): for a request with Connection: upgrade the HTTP handler is
\* never invoked, and however the upgrade branch ends (no or a wrong Upgrade
\* header, an unregistered route, the connect callback returning or
\* throwing, the message loop ending) the worker releases the connection
\* next instead of going on with the request loop.
C15_UpgradeOwnsConnection ==
    [][/\ (served' = served + 1 /\ req'.connection = "upgrade") => pc' # "handler"
       /\ pc \in {"connect", "run", "onclose"} => pc' # "handler"
       /\ UpgradeEnds => Released]_vars

\* C16: after listen() the pool keeps numChildren workers: the exit of a
\* worker's function starts exactly one Thread for Child, no thread is
\* started otherwise, and from every state on numChildren workers are again
\* in the loops of Child eventually.
C16_PoolKept ==
    /\ [][/\ \A t \in DOMAIN pool :
                (pool[t].pc = "exiting" /\ pool'[t].pc = "dead") =>
                    (Len(pool') = Len(pool) + 1 /\ pool'[Len(pool')] = Thread)
          /\ (pool # <<>> /\ Len(pool') # Len(pool)) =>
                \E t \in DOMAIN pool : pool[t].pc = "exiting" /\ pool'[t].pc = "dead"
          /\ pool' # <<>> =>
                Cardinality({t \in DOMAIN pool' : pool'[t].pc # "dead"}) = numChildren]_vars
    /\ [](pool # <<>> => <>(Cardinality(InLoop) = numChildren))

C16_Witness ==
    /\ Cardinality(Exited) = MaxExits
    /\ \A t \in Exited : pool[t].pc = "dead"
    /\ Cardinality(InLoop) = numChildren

\* the step in which new Request(is) throws e
ParserThrew(e) == pc = "loop" /\ served' = served /\ parsed'.threw = e

\* the step in which handling the request, or the upgrade, throws a failure
\* that is none of the signals 'EOF', 'RES.STOP' and 'THREAD.EXIT'
HandlingFailed ==
    /\ pc \in {"loop", "handler"} /\ pc' # "handler"
    /\ fin'.n = served' /\ fin'.op = "throw"
    /\ fin'.ret \notin {"EOF", "RES.STOP", "THREAD.EXIT"}

\* C17 (refuted): a failure while parsing or handling a request that is not
\* 'EOF', the stop()/redirect() signal or 'THREAD.EXIT' sets keepAlive to
\* false, no further request is served on the connection, and the worker
\* stays alive and goes back to accept.
C17_FailureCloses ==
    [][(ParserThrew("Error") \/ HandlingFailed) => (~keepAlive' /\ Released)]_vars

\* C18 (refuted): every step that leaves the request loop of an accepted
\* connection has destroyed the socket.
C18_AlwaysReleased ==
    [][(pc \notin {"accept", "exited"} /\ pc' \in {"accept", "exited"}) =>
            sock' = "destroyed"]_vars

\* C19: when the stream ends while the request line or a header line is
\* read, the loop ends without an error: no handler runs, startRequest is
\* not fired, nothing is written, the connection is released and the worker
\* accepts again.
C19_EofEndsQuietly ==
    [][ParserThrew("EOF") =>
            (/\ Released
             /\ keepAlive' = keepAlive
             /\ notes' = notes /\ res' = res /\ fin' = fin)]_vars

C19_Witness ==
    /\ parsed.threw = "EOF" /\ parsed.at = "headerLine"
    /\ pc = "accept" /\ sock = "destroyed" /\ served = 1 /\ keepAlive

\* C20: a request whose Content-Length exceeds the maximum body size fails
\* in the parser before any byte of the body is read; the handler is not
\* invoked and the connection is closed, not reused.
C20_TooLargeRejected ==
    [][(pc = "loop" /\ served' = served /\ parsed'.contentLength > maxUpload) =>
            (/\ parsed'.threw = "Error" /\ parsed'.bodyRead = 0
             /\ notes' = notes /\ ~keepAlive' /\ Released)]_vars

C20_Witness ==
    /\ parsed.contentLength = maxUpload + 1 /\ parsed.bodyRead = 0
    /\ pc = "accept" /\ sock = "destroyed" /\ served = 1

\* C21: decoding with getMessage the frame rawSendMessage writes for a text
\* payload gives the payload back, whatever the length of the payload
C21_RoundTrip ==
    echo # NoEcho => (echo.ret = "message" /\ echo.got = echo.sent)

\* C22: the 101 response of the handshake carries, for the client key
\* dGhlIHNhbXBsZSBub25jZQ==, the header Sec-WebSocket-Accept with the value
\* s3pPLMBiTxaQ9kYGzzhZRbK+xOo=, the base64 form of the SHA-1 digest of the
\* key followed by the GUID.
C22_AcceptValue ==
    pc \in {"connect", "run", "onclose"} =>
        /\ Len(res.wire) = 1 /\ res.wire[1].t = "head" /\ res.wire[1].status = 101
        /\ Has(res.wire[1].hdrs, "Sec-WebSocket-Accept")
        /\ res.wire[1].hdrs["Sec-WebSocket-Accept"] =
              <<
                "s", "3", "p", "P", "L", "M", "B", "i", "T", "x", "a", "Q", "9", "k",
                "Y", "G", "z", "z", "h", "Z", "R", "b", "K", "+", "x", "O", "o", "="
              >>

C22_Witness ==
    /\ pc = "connect" /\ req.upgrade = "WebSocket"
    /\ res.headersSent /\ res.status = 101

\* C23: startRequest is fired before the handler of a parsed request is
\* called, and when the handler has ended, by a return, by stop() or
\* redirect(), or by a failure, exactly one endRequest has followed it.
C23_StartThenOneEnd ==
    [][/\ (pc # "handler" /\ pc' = "handler") => notes' = <<"startRequest">>
       /\ (pc = "handler" /\ pc' # "handler") =>
            notes' = <<"startRequest", "endRequest">>]_vars

\* the threads inside send(), ping() or pong() of the WebSocket ws
Inside(ws) == {t \in Senders : senders[t].pc = "inside" /\ senders[t].ws = ws}

\* C24: at most one thread at a time is inside send(), ping() or pong() of a
\* WebSocket, the bytes on a connection since its last whole frame are the
\* bytes of the one frame being written, and a thread is let into a
\* function of a WebSocket no thread is inside of, whatever the threads
\* inside the functions of other WebSockets.
C24_OneSenderPerSocket ==
    /\ \A ws \in Sockets : Cardinality(Inside(ws)) <= 1
    /\ \A ws \in Sockets :
        IF Inside(ws) = {} THEN out[ws] = <<>>
        ELSE \A t \in Inside(ws) :
                out[ws] = SubSeq(senders[t].frame, 1, senders[t].n)
    /\ \A t \in Senders, ws \in Sockets :
        (senders[t].pc = "outside" /\ senders[t].calls < MaxCalls /\ Inside(ws) = {})
            => ENABLED Enter(t, ws)

C24_Witness ==
    /\ \E t \in Inside(1), u \in Inside(2) : senders[t].n = 1 /\ senders[u].n = 1
    /\ \E t \in Senders : senders[t].pc = "outside" /\ senders[t].calls < MaxCalls

\* the field p of a form is a name=value pair whose value decodes
WellFormed(p) == decodeURIComponent(split(p[1] \o p[3] \o p[2], "=")).threw = ""

\* C25: every name=value pair of a form-urlencoded body of well-formed pairs
\* is in data under its name with its URL-decoded value, as the same string
\* gives when it is a query string (of two pairs of one name, the later
\* one), for bodies of one pair as well as of several.
C25_FormPairs ==
    (form.post # <<>> /\ \A i \in 1..Len(form.pairs) : WellFormed(form.pairs[i])) =>
        /\ form.threw = ""
        /\ \A i \in 1..Len(form.pairs) :
            (\A j \in (i + 1)..Len(form.pairs) : form.pairs[j][1] # form.pairs[i][1])
                => /\ Has(form.data, form.pairs[i][1])
                   /\ Has(form.query, form.pairs[i][1])
                   /\ form.data[form.pairs[i][1]] = form.query[form.pairs[i][1]]

C27_CloseEndsLoop ==
    [][/\ (loop = "run" /\ getMessage(wsIn).ret # "message" /\ <<wsIn, loop>>' # <<wsIn, loop>>
              /\ frames' = frames) =>
            (loop' = "onclose" /\ log' = log)
       /\ (loop = "run" /\ loop' # "run") => getMessage(wsIn).ret \in {"close", "EOF"}
       /\ loop # "run" =>
            /\ loop' # "run"
            /\ \A i \in (Len(log) + 1)..Len(log') :
                    log'[i].call \notin {"onmessage", "message"}
       /\ (loop = "onclose" /\ loop' # "onclose") =>
            /\ loop' = "closed"
            /\ log' = log \o <<[call |-> "onclose", message |-> <<>>],
                               [call |-> "close", message |-> <<>>]>>
       /\ loop = "closed" => (loop' = "closed" /\ log' = log)]_vars

\* C28: the bytes written to the client are one pong frame, 8a 00, for each
\* ping frame read, and nothing for a frame of another opcode.
C28_OnePongPerPing ==
    wsOut = [i \in 1..(2 * Cardinality({k \in 1..nread : frames[k].op = 9})) |->
                IF i % 2 = 1 THEN 138 ELSE 0]

C28_Witness ==
    /\ nread = 3
    /\ frames[1].op = 9 /\ frames[2].op = 10 /\ frames[3].op = 11
    /\ wsOut = <<138, 0>>

\* the payloads of the continuation, text and binary frames among the frames
\* i..j the client sent, joined in order
RECURSIVE DataPayloads(_, _)
DataPayloads(i, j) ==
    IF i > j THEN <<>>
    ELSE (IF frames[i].op \in {0, 1, 2} THEN frames[i].payload ELSE <<>>)
            \o DataPayloads(i + 1, j)

\* C29: a ping, pong or reserved-opcode frame is never delivered: the frame
\* that completes a message passed to onmessage is a data frame, and the
\* message has no byte of the payload of a ping, pong or reserved-opcode
\* frame read since the previous message.
C29_ControlNotDelivered ==
    [][Len(log') > Len(log) /\ log'[Len(log) + 1].call = "onmessage" =>
            /\ frames[nread'].op \in {0, 1, 2}
            /\ Len(log'[Len(log) + 1].message) = Len(DataPayloads(nread + 1, nread'))]_vars

\* C30: getMessage returns a message only when the last frame it read has FIN
\* set, and the message is the unmasked payloads of the data frames read
\* since the previous message, joined in the order of arrival.
C30_MessageIsPayloads ==
    [][Len(log') > Len(log) /\ log'[Len(log) + 1].call = "onmessage" =>
            /\ frames[nread'].fin
            /\ log'[Len(log) + 1].message = DataPayloads(nread + 1, nread')]_vars

\* C31: a data frame with FIN set completes the message whatever the length
\* of its payload: no call of getMessage reads past a whole continuation,
\* text or binary frame with FIN set.
C31_FinCompletes ==
    [][(loop = "run" /\ nread' > nread) =>
            \A k \in (nread + 1)..(nread' - 1) :
                ~(frames[k].op \in {0, 1, 2} /\ frames[k].fin /\ frames[k].cut = 0)]_vars

\* C32: rawSendMessage writes 81, then the length of the payload in one byte
\* when it is below 126, 7e and the length in 2 big-endian bytes when it is
\* 126 to 65535, and 7f and the length in 8 big-endian bytes when it is 65536
\* or more, the first four of them zero for every length below 2^32; the mask
\* bit is never set.
C32_LengthForm ==
    echo # NoEcho =>
        LET len == Len(echo.sent) IN
        echo.head =
            CASE len < 126 -> <<129, len>>
              [] len >= 126 /\ len < 65536 -> <<129, 126, len \div 256, len % 256>>
              [] OTHER -> <<129, 127, 0, 0, 0, 0, len \div 16777216,
                            (len \div 65536) % 256, (len \div 256) % 256, len % 256>>

\* C33: in a chunked response everything written after the header block is
\* a chunk, or the terminator at the end, and no Content-Length is set:
\* end(body) after write() writes no body bytes outside a chunk.
C33_ChunkedBody ==
    res.chunked =>
        /\ \A i \in 2..Len(res.wire) :
            \/ res.wire[i].t = "chunk"
            \/ res.wire[i].t = "term" /\ i = Len(res.wire)
        /\ ~Has(res.headers, "Content-Length")

\* C34: a request with more than 64 header lines is parsed: its first 64
\* header lines are stored, the lines are read up to and including the
\* blank line, and the body is read, so that the next request starts at
\* the right place of the stream.
C34_HeaderCap ==
    hdr.lines > 0 =>
        /\ hdr.threw = ""
        /\ DOMAIN hdr.headers =
                {IF i = hdr.cl THEN 0 ELSE i : i \in 1..(IF hdr.n > 64 THEN 64 ELSE hdr.n)}
        /\ hdr.lines = hdr.n + 1
        /\ hdr.bodyRead = hdr.body

\* C35: a malformed pair, with no `=` or with an invalid percent escape,
\* does not abort the parse, in the query string or in a form-urlencoded
\* body: the Request is constructed and the well-formed pairs are decoded
\* (of two well-formed pairs of one name, the later one).
C35_MalformedSkipped ==
    (\E i \in 1..Len(form.pairs) : ~WellFormed(form.pairs[i])) =>
        /\ form.threw = ""
        /\ \A i \in 1..Len(form.pairs) :
            (/\ WellFormed(form.pairs[i])
             /\ \A j \in (i + 1)..Len(form.pairs) :
                    WellFormed(form.pairs[j]) => form.pairs[j][1] # form.pairs[i][1]) =>
                LET name == form.pairs[i][1]
                    value == decodeURIComponent(<<name, form.pairs[i][2]>>).value
                IN /\ Has(form.query, name) /\ form.query[name] = value
                   /\ Has(form.data, name) /\ form.data[name] = value

\* C36: redirect(url) on a response whose headers are not sent sends a
\* header block with status 303 and Location, url unchanged when it starts
\* with http:// or https:// and http://host:port followed by url otherwise;
\* the handler does not continue and the worker keeps the connection.
C36_Redirect ==
    [][\A u \in Urls :
        (/\ pc = "handler" /\ fin'.op = "redirect"
         /\ ~res.headersSent
         /\ res' = redirect(res, u, Host, Port)) =>
            /\ res'.headersSent
            /\ Len(res'.wire) = 1 /\ res'.wire[1].t = "head" /\ res'.wire[1].status = 303
            /\ Has(res'.wire[1].hdrs, "Location")
            /\ res'.wire[1].hdrs["Location"] =
                    (IF u.abs \in {"http://", "https://"} THEN u.abs \o u.rest
                     ELSE "http://" \o Host \o ":" \o Port \o u.abs \o u.rest)
            /\ pc' = "loop" /\ sock' = sock /\ keepAlive' = keepAlive]_vars

\* C37: the Connection header written for a response agrees with what the
\* worker does when the handler has returned, stopped or redirected: it is
\* close exactly when the worker releases the connection and Keep-Alive
\* exactly when the worker goes on with the request loop.
C37_ConnectionAgrees ==
    [][(/\ Finishing /\ fin'.op \in {"return", "stop", "redirect"}
        /\ Count(res'.wire, "head") = 1
        /\ Has(res'.wire[1].hdrs, "Connection")) =>
            /\ res'.wire[1].hdrs["Connection"] = "close" <=> Released
            /\ res'.wire[1].hdrs["Connection"] = "Keep-Alive" <=> LoopsOn]_vars

\* C38 (refuted): no frame is written to a WebSocket after it was removed
\* from the registry: the broadcast thread calls send (whether the write
\* succeeds or throws) only on a WebSocket that is in the registry, whose
\* run() has not ended.
C38_NoSendAfterRemoval ==
    [][bc.pc = "iterating" =>
            \A e \in bc.snap :
                (\/ bc'.pc = "failed" /\ bc'.failed = e.uuid
                 \/ bc'.pc = "iterating" /\ bc'.sent[e.uuid] > bc.sent[e.uuid]) =>
                    /\ e \in webSockets
                    /\ workers[e.uuid].pc # "closed"]_vars

\* C39 (refuted): a send that fails in a broadcast does not keep the message
\* from the other recipients: when the broadcast thread ends at a failing
\* send, every other WebSocket of the registry whose request uri equals the
\* path and whose uuid differs from the sender's has been sent the message.
C39_FailureIsolated ==
    [][(bc.pc = "iterating" /\ bc'.pc = "failed") =>
            \A e \in bc.snap \cap webSockets :
                (Matches(e, bc.me, bc.path) /\ e.uuid # bc'.failed) =>
                    bc.sent[e.uuid] >= 1]_vars

====
